---- MODULE Spec2Model ----
(***************************************************************************)
(* Model of the sqlcompose statement composer (go-compose-sql).            *)
(*                                                                         *)
(* A statement is a sequence of clauses plus a driver.  Builder methods    *)
(* append clauses, Write() renders the clause sequence to SQL and Args()   *)
(* flattens the bound arguments.  SQL text is modelled as a sequence of    *)
(* tokens; joining fragments with a space is concatenation of token        *)
(* sequences.  A placeholder is the token "?" or "$n".                     *)
(***************************************************************************)
EXTENDS Integers, Sequences, FiniteSets, TLC

VARIABLES stmt, out, prev, calls, res, builder, bsql, bprev, reg, cres, heap, held, dialect, registries, callers, conn, txres

\* The statement composer, the database handle given to Exec and Query, the
\* v2 query builder and the type-conversion registry.
stmtVars == <<stmt, out, prev>>
execVars == <<calls, res>>
builderVars == <<builder, bsql, bprev>>
convVars == <<reg, cres>>
txVars == <<conn, txres>>
dialectVars == <<dialect, registries, callers>>
sliceVars == <<heap, held>>

vars == <<stmt, out, prev, calls, res, builder, bsql, bprev, reg, cres, heap, held, dialect, registries, callers, conn, txres>>

(***************************************************************************)
(* Bounds of the exploration.                                              *)
(***************************************************************************)
MaxClauses == 3
MaxCols == 2
MaxVals == 2

(***************************************************************************)
(* Clause kinds, drivers, errors.                                          *)
(***************************************************************************)
ClauseInsert == "INSERT"
ClauseSelect == "SELECT"
ClauseUpdate == "UPDATE"
ClauseDelete == "DELETE"
ClauseWhere == "WHERE"
ClauseOrderBy == "ORDER BY"
ClauseLimit == "LIMIT"
ClauseOffset == "OFFSET"
ClauseCoalesce == "COALESCE"
ClauseReturning == "RETURNING"
ClauseDesc == "DESC"
ClauseAsc == "ASC"
ClauseValues == "VALUES"
ClauseJoin == "JOIN"

NilDriver == "nil"
SQLiteDriver == "SQLiteDriver"
PostgresDriver == "PostgresDriver"
DefaultDriver == SQLiteDriver

ErrNil == [kind |-> "nil", clause |-> ""]
NewErrInvalidClause(c) == [kind |-> "ErrInvalidClause", clause |-> c]
NewErrInvalidCoalesceArgs == [kind |-> "ErrInvalidCoalesceArgs", clause |-> ""]
NewErrMisplacedClause(c) == [kind |-> "ErrMisplacedClause", clause |-> c]
ErrMalformed(c) == [kind |-> "malformed", clause |-> c]

(***************************************************************************)
(* The statement and clause values.                                        *)
(***************************************************************************)
ZeroStatement == [Clauses |-> <<>>, Driver |-> NilDriver]

SqlClause(type) ==
  [Type |-> type, TableName |-> "", ColumnNames |-> <<>>, ModelType |-> "nil",
   Expr |-> <<>>, Args |-> <<>>, Identifier |-> "", JoinStatement |-> ZeroStatement]

NoResult == [rendered |-> FALSE, sql |-> <<>>, err |-> ErrNil, args |-> <<>>]

(***************************************************************************)
(* Placeholder renderers.                                                  *)
(***************************************************************************)
questionPlaceholder == "question"
dollarPlaceholder == "dollar"

Placeholder(renderer, idx) ==
  IF renderer = dollarPlaceholder THEN "$" \o ToString(idx) ELSE "?"

rendererForDriver(driver) ==
  IF driver = PostgresDriver THEN dollarPlaceholder ELSE questionPlaceholder

RECURSIVE CommaJoin(_)
CommaJoin(s) ==
  IF Len(s) = 0 THEN <<>>
  ELSE IF Len(s) = 1 THEN <<s[1]>>
  ELSE <<s[1], ",">> \o CommaJoin(Tail(s))

RECURSIVE Flatten(_)
Flatten(parts) ==
  IF Len(parts) = 0 THEN <<>> ELSE Head(parts) \o Flatten(Tail(parts))

\* strings.Index on the token level: first index of tok in s, 0 when absent.
RECURSIVE IndexFrom(_, _, _)
IndexFrom(s, tok, i) ==
  IF i > Len(s) THEN 0
  ELSE IF s[i] = tok THEN i
  ELSE IndexFrom(s, tok, i + 1)

Index(s, tok) == IndexFrom(s, tok, 1)

RECURSIVE replaceLoop(_, _, _, _, _, _)
replaceLoop(expr, argPosition, placeholders, i, b, count) ==
  IF i > Len(expr) THEN [sql |-> b, used |-> count]
  ELSE IF expr[i] = "?"
       THEN replaceLoop(expr, argPosition, placeholders, i + 1,
                        Append(b, Placeholder(placeholders, argPosition + count)), count + 1)
       ELSE replaceLoop(expr, argPosition, placeholders, i + 1, Append(b, expr[i]), count)

replacePlaceholders(expr, argPosition, placeholders) ==
  LET r == replaceLoop(expr, argPosition, placeholders, 1, <<>>, 0)
  IN IF r.used = 0 THEN [sql |-> expr, used |-> 0] ELSE r

\* Variant: only a COALESCE without any argument is rejected.
coalesceTooFewEmptyOnly(n) == n < 1

\* COALESCE needs at least two arguments.
coalesceTooFew(n) == n < 2

writeClause(clause, argPosition, placeholders) ==
  LET n == Len(clause.ColumnNames)
      cols == CommaJoin(clause.ColumnNames)
  IN
  CASE clause.Type = ClauseInsert ->
         LET placeholdersList == [i \in 1..n |-> Placeholder(placeholders, argPosition + i - 1)]
         IN [sql |-> <<"INSERT", "INTO", clause.TableName, "(">> \o cols
                       \o <<")", "VALUES", "(">> \o CommaJoin(placeholdersList) \o <<")">>,
             used |-> n, err |-> ErrNil]
    [] clause.Type = ClauseSelect ->
         [sql |-> <<"SELECT">> \o cols \o <<"FROM", clause.TableName>>, used |-> 0, err |-> ErrNil]
    [] clause.Type = ClauseUpdate ->
         LET assignments == [i \in 1..n |->
                <<clause.ColumnNames[i], "=", Placeholder(placeholders, argPosition + i - 1)>>]
             RECURSIVE joinAssign(_)
             joinAssign(i) ==
               IF i > n THEN <<>>
               ELSE IF i = n THEN assignments[i]
               ELSE assignments[i] \o <<",">> \o joinAssign(i + 1)
         IN [sql |-> <<"UPDATE", clause.TableName, "SET">> \o joinAssign(1),
             used |-> n, err |-> ErrNil]
    [] clause.Type = ClauseDelete ->
         [sql |-> <<"DELETE", "FROM", clause.TableName>>, used |-> 0, err |-> ErrNil]
    [] clause.Type = ClauseWhere ->
         LET r == replacePlaceholders(clause.Expr, argPosition, placeholders)
         IN [sql |-> <<"WHERE">> \o r.sql, used |-> r.used, err |-> ErrNil]
    [] clause.Type = ClauseOrderBy ->
         [sql |-> <<"ORDER BY">> \o cols, used |-> 0, err |-> ErrNil]
    [] clause.Type = ClauseLimit ->
         [sql |-> <<"LIMIT", Placeholder(placeholders, argPosition)>>, used |-> 1, err |-> ErrNil]
    [] clause.Type = ClauseOffset ->
         [sql |-> <<"OFFSET", Placeholder(placeholders, argPosition)>>, used |-> 1, err |-> ErrNil]
    [] clause.Type = ClauseCoalesce ->
         IF coalesceTooFew(n)
         THEN [sql |-> <<>>, used |-> 0, err |-> NewErrInvalidCoalesceArgs]
         ELSE [sql |-> <<"COALESCE", "(">> \o cols \o <<")">>, used |-> 0, err |-> ErrNil]
    [] clause.Type = ClauseDesc -> [sql |-> <<"DESC">>, used |-> 0, err |-> ErrNil]
    [] clause.Type = ClauseAsc -> [sql |-> <<"ASC">>, used |-> 0, err |-> ErrNil]
    [] clause.Type = ClauseReturning ->
         [sql |-> <<"RETURNING">> \o (IF n > 0 THEN cols ELSE <<"*">>), used |-> 0, err |-> ErrNil]
    [] OTHER -> [sql |-> <<>>, used |-> 0, err |-> NewErrInvalidClause(clause.Type)]

\* Driver.Write of SQLiteDriver and PostgresDriver.
DriverWrite(driver, clause, argPosition) ==
  IF driver = PostgresDriver
  THEN writeClause(clause, argPosition, dollarPlaceholder)
  ELSE writeClause(clause, argPosition, questionPlaceholder)

RECURSIVE hasReturningFrom(_, _)
hasReturningFrom(s, i) ==
  IF i > Len(s.Clauses) THEN FALSE
  ELSE IF s.Clauses[i].Type = ClauseReturning THEN TRUE
  ELSE hasReturningFrom(s, i + 1)

hasReturningClause(s) == hasReturningFrom(s, 1)

Failed(e) == [sql |-> <<>>, used |-> 0, err |-> e]

\* Variant: only the first clause is checked.
descAscMisplacedFirstOnly(s, i) ==
  /\ s.Clauses[i].Type \in {ClauseDesc, ClauseAsc}
  /\ i = 1

\* DESC and ASC must immediately follow ORDER BY.
descAscMisplaced(s, i) ==
  /\ s.Clauses[i].Type \in {ClauseDesc, ClauseAsc}
  /\ (i = 1 \/ s.Clauses[i - 1].Type # ClauseOrderBy)

\* Variant: RETURNING is checked against its predecessor.
returningMisplacedByPredecessor(s, i) ==
  /\ s.Clauses[i].Type = ClauseReturning
  /\ (i = 1 \/ s.Clauses[i - 1].Type \notin {ClauseInsert, ClauseUpdate, ClauseDelete})

\* RETURNING needs a leading INSERT, UPDATE or DELETE clause.
returningMisplaced(s, i) ==
  /\ s.Clauses[i].Type = ClauseReturning
  /\ s.Clauses[1].Type \notin {ClauseInsert, ClauseUpdate, ClauseDelete}

\* Variant: the spliced tuple keeps one placeholder per INSERT column.
valuesPlaceholdersPerColumn(renderer, valuesStartPos, insertColumns, args) ==
  [j \in 1..insertColumns |-> Placeholder(renderer, valuesStartPos + j - 1)]

\* The placeholders of the VALUES tuple spliced into the INSERT fragment.
valuesPlaceholders(renderer, valuesStartPos, insertColumns, args) ==
  [j \in 1..Len(args) |-> Placeholder(renderer, valuesStartPos + j - 1)]

\* Variant: the ON expression starts where the JOIN itself started.
joinOnStartAtJoin(argPosition, usedInner) == argPosition

\* The position at which the ON expression of a JOIN starts.
joinOnStart(argPosition, usedInner) == argPosition + usedInner

RECURSIVE renderLoop(_, _, _, _, _, _, _)
RECURSIVE renderJoinClause(_, _, _, _, _, _)

renderClauses(s, driver, renderer, argPosition) ==
  renderLoop(s, driver, renderer, 1, <<>>, argPosition, 0)

renderJoinClause(s, clause, driver, renderer, argPosition, index) ==
  IF Len(s.Clauses) = 0 \/ s.Clauses[1].Type # ClauseSelect
  THEN Failed(NewErrMisplacedClause(ClauseJoin))
  ELSE IF index = 1
  THEN Failed(NewErrMisplacedClause(ClauseJoin))
  ELSE IF s.Clauses[index - 1].Type \in
            {ClauseWhere, ClauseOrderBy, ClauseLimit, ClauseOffset, ClauseReturning}
  THEN Failed(NewErrMisplacedClause(ClauseJoin))
  ELSE IF Len(clause.JoinStatement.Clauses) = 0
  THEN Failed(NewErrMisplacedClause(ClauseJoin))
  ELSE
    LET nestedDriver == IF clause.JoinStatement.Driver = NilDriver
                        THEN driver ELSE clause.JoinStatement.Driver
        nestedRenderer == rendererForDriver(nestedDriver)
        lead == clause.JoinStatement.Clauses[1].Type
    IN
    IF lead \in {ClauseInsert, ClauseUpdate, ClauseDelete}
       /\ ~hasReturningClause(clause.JoinStatement)
    THEN Failed(NewErrMisplacedClause(ClauseJoin))
    ELSE IF lead \notin {ClauseSelect, ClauseInsert, ClauseUpdate, ClauseDelete}
    THEN Failed(NewErrMisplacedClause(ClauseJoin))
    ELSE
      LET inner == renderClauses(clause.JoinStatement, nestedDriver, nestedRenderer, argPosition)
      IN
      IF inner.err # ErrNil THEN Failed(inner.err)
      ELSE
        LET on == replacePlaceholders(clause.Expr, joinOnStart(argPosition, inner.used), renderer)
        IN [sql |-> <<"JOIN", "(">> \o inner.sql \o <<")", clause.Identifier, "ON">> \o on.sql,
            used |-> inner.used + on.used, err |-> ErrNil]

\* The body of the for loop of renderClauses, for clause i (1-based).
renderLoop(s, driver, renderer, i, parts, argPosition, usedTotal) ==
  IF i > Len(s.Clauses)
  THEN [sql |-> Flatten(parts), used |-> usedTotal, err |-> ErrNil]
  ELSE
  LET c == s.Clauses[i] IN
  IF descAscMisplaced(s, i)
  THEN Failed(NewErrMisplacedClause(c.Type))
  ELSE IF returningMisplaced(s, i)
  THEN Failed(NewErrMisplacedClause(c.Type))
  ELSE IF c.Type = ClauseValues
  THEN
    IF i = 1 THEN Failed(NewErrMisplacedClause(c.Type))
    ELSE
    LET prevType == s.Clauses[i - 1].Type IN
    IF prevType = ClauseInsert
    THEN
      LET insertClause == parts[Len(parts)]
          idx == Index(insertClause, "VALUES")
      IN
      IF idx = 0 THEN Failed(ErrMalformed(ClauseInsert))
      ELSE
        LET insertColumns == Len(s.Clauses[i - 1].ColumnNames)
            valuesStartPos == argPosition - insertColumns
            placeholdersList ==
              valuesPlaceholders(renderer, valuesStartPos, insertColumns, c.Args)
            spliced == SubSeq(insertClause, 1, idx - 1)
                         \o <<"VALUES", "(">> \o CommaJoin(placeholdersList) \o <<")">>
        IN renderLoop(s, driver, renderer, i + 1,
                      [parts EXCEPT ![Len(parts)] = spliced],
                      argPosition - insertColumns + Len(placeholdersList),
                      usedTotal - insertColumns + Len(placeholdersList))
    ELSE IF prevType = ClauseUpdate
    THEN renderLoop(s, driver, renderer, i + 1, parts, argPosition, usedTotal)
    ELSE Failed(NewErrMisplacedClause(c.Type))
  ELSE IF c.Type = ClauseJoin
  THEN
    LET j == renderJoinClause(s, c, driver, renderer, argPosition, i) IN
    IF j.err # ErrNil THEN Failed(j.err)
    ELSE renderLoop(s, driver, renderer, i + 1, Append(parts, j.sql),
                    argPosition + j.used, usedTotal + j.used)
  ELSE
    LET w == DriverWrite(driver, c, argPosition) IN
    IF w.err # ErrNil THEN Failed(w.err)
    ELSE IF c.Type = ClauseCoalesce
    THEN
      IF i = 1 \/ s.Clauses[i - 1].Type # ClauseSelect
      THEN Failed(NewErrMisplacedClause(c.Type))
      ELSE
        LET sel == parts[Len(parts)]
            idx == Index(sel, "FROM")
        IN
        IF idx = 0 THEN Failed(ErrMalformed(ClauseSelect))
        ELSE renderLoop(s, driver, renderer, i + 1,
                        [parts EXCEPT ![Len(parts)] =
                           SubSeq(sel, 1, idx - 1) \o <<",">> \o w.sql \o SubSeq(sel, idx, Len(sel))],
                        argPosition + w.used, usedTotal + w.used)
    ELSE renderLoop(s, driver, renderer, i + 1, Append(parts, w.sql),
                    argPosition + w.used, usedTotal + w.used)

\* Variant: every driver asks for the terminator.
needsSemicolonAlways(driver) == TRUE

needsSemicolon(driver) == driver # PostgresDriver

\* Variant: the error of renderClauses is dropped.
WriteDroppingError(s) ==
  LET driver == IF s.Driver = NilDriver THEN DefaultDriver ELSE s.Driver
      renderer == rendererForDriver(driver)
      r == renderClauses(s, driver, renderer, 1)
  IN
  IF r.sql = <<>> THEN [sql |-> <<>>, err |-> ErrNil]
  ELSE IF needsSemicolon(driver) THEN [sql |-> Append(r.sql, ";"), err |-> ErrNil]
  ELSE [sql |-> r.sql, err |-> ErrNil]

Write(s) ==
  LET driver == IF s.Driver = NilDriver THEN DefaultDriver ELSE s.Driver
      renderer == rendererForDriver(driver)
      r == renderClauses(s, driver, renderer, 1)
  IN
  IF r.err # ErrNil THEN [sql |-> <<>>, err |-> r.err]
  ELSE IF r.sql = <<>> THEN [sql |-> <<>>, err |-> ErrNil]
  ELSE IF needsSemicolon(driver) THEN [sql |-> Append(r.sql, ";"), err |-> ErrNil]
  ELSE [sql |-> r.sql, err |-> ErrNil]

RECURSIVE Args(_)
RECURSIVE argsFrom(_, _)
RECURSIVE argsFromNoNested(_, _)
RECURSIVE argsFromOwnFirst(_, _)

\* Variant: the arguments of a JOIN's nested statement are left out.
argsFromNoNested(s, i) ==
  IF i > Len(s.Clauses) THEN <<>>
  ELSE s.Clauses[i].Args \o argsFromNoNested(s, i + 1)

\* Variant: a JOIN's own ON arguments come before its nested statement's.
argsFromOwnFirst(s, i) ==
  IF i > Len(s.Clauses) THEN <<>>
  ELSE LET c == s.Clauses[i] IN
       c.Args \o (IF c.Type = ClauseJoin THEN Args(c.JoinStatement) ELSE <<>>)
         \o argsFromOwnFirst(s, i + 1)

argsFrom(s, i) ==
  IF i > Len(s.Clauses) THEN <<>>
  ELSE LET c == s.Clauses[i] IN
       (IF c.Type = ClauseJoin THEN Args(c.JoinStatement) ELSE <<>>)
         \o c.Args \o argsFrom(s, i + 1)

Args(s) == argsFrom(s, 1)

(***************************************************************************)
(* Builder methods: each returns the statement with one more clause.       *)
(***************************************************************************)
AppendClause(s, c) == [s EXCEPT !.Clauses = Append(@, c)]

Where(s, expr, args) ==
  AppendClause(s, [SqlClause(ClauseWhere) EXCEPT !.Expr = expr, !.Args = args])

OrderBy(s, columns) ==
  AppendClause(s, [SqlClause(ClauseOrderBy) EXCEPT !.ColumnNames = columns])

Limit(s, n) == AppendClause(s, [SqlClause(ClauseLimit) EXCEPT !.Args = <<n>>])

Offset(s, n) == AppendClause(s, [SqlClause(ClauseOffset) EXCEPT !.Args = <<n>>])

\* Values given to Coalesce: nil, a string or an int.
NilValue == [kind |-> "nil", str |-> "", int |-> 0]
StringValue(v) == [kind |-> "string", str |-> v, int |-> 0]
IntValue(n) == [kind |-> "int", str |-> "", int |-> n]

formatCoalesceValue(v) ==
  CASE v.kind = "nil" -> "NULL"
    [] v.kind = "string" -> v.str
    [] OTHER -> ToString(v.int)

Coalesce(s, values) ==
  AppendClause(s, [SqlClause(ClauseCoalesce) EXCEPT
                     !.ColumnNames = [k \in DOMAIN values |-> formatCoalesceValue(values[k])]])

Desc(s) == AppendClause(s, SqlClause(ClauseDesc))

Asc(s) == AppendClause(s, SqlClause(ClauseAsc))

Returning(s, columns) ==
  AppendClause(s, [SqlClause(ClauseReturning) EXCEPT !.ColumnNames = columns])

\* The value of the model struct's field mapped to column c<i>.
FieldValue(i) == 500 + i

ColumnName(i) == "c" \o ToString(i)

ColumnIndex(name) == CHOOSE i \in 1..(MaxCols + 1) : ColumnName(i) = name

\* extractFieldValues: the struct's fields in declaration order, kept when
\* their column is one of columnNames.
extractFieldValues(columnNames) ==
  [k \in 1..Len(columnNames) |-> FieldValue(ColumnIndex(columnNames[k]))]

\* Values(values...): isStruct says that values is one struct of the model type.
Values(s, values, isStruct) ==
  IF Len(values) = 0
  THEN AppendClause(s, [SqlClause(ClauseValues) EXCEPT !.Args = values])
  ELSE IF Len(s.Clauses) = 0
  THEN AppendClause(s, [SqlClause(ClauseValues) EXCEPT !.Args = values])
  ELSE IF s.Clauses[1].ModelType = "nil"
  THEN AppendClause(s, [SqlClause(ClauseValues) EXCEPT !.Args = values])
  ELSE IF isStruct /\ Len(values) = 1
  THEN AppendClause(s, [SqlClause(ClauseValues) EXCEPT
                          !.Args = extractFieldValues(s.Clauses[1].ColumnNames)])
  ELSE AppendClause(s, [SqlClause(ClauseValues) EXCEPT !.Args = values])

Join(s, sub, identifier, on, args) ==
  LET nested == IF sub.Driver = NilDriver THEN [sub EXCEPT !.Driver = s.Driver] ELSE sub
  IN AppendClause(s, [SqlClause(ClauseJoin) EXCEPT
                        !.Identifier = identifier, !.JoinStatement = nested,
                        !.Expr = on, !.Args = args])

(***************************************************************************)
(* Constructors.  opts is the driver of SqlOpts (NilDriver: no driver      *)
(* given) and the number of fields the Fields filter keeps.                *)
(***************************************************************************)
Columns(n) == [i \in 1..n |-> ColumnName(i)]

OptsDriver(d) == IF d # NilDriver THEN d ELSE DefaultDriver

Update(n, d) ==
  [Clauses |-> <<[SqlClause(ClauseUpdate) EXCEPT
                    !.TableName = "t", !.ColumnNames = Columns(n), !.ModelType = "T"]>>,
   Driver |-> OptsDriver(d)]

Insert(n, d) ==
  [Clauses |-> <<[SqlClause(ClauseInsert) EXCEPT
                    !.TableName = "t", !.ColumnNames = Columns(n), !.ModelType = "T"]>>,
   Driver |-> OptsDriver(d)]

Select(n, d) ==
  [Clauses |-> <<[SqlClause(ClauseSelect) EXCEPT
                    !.TableName = "t", !.ColumnNames = Columns(n), !.ModelType = "T"]>>,
   Driver |-> OptsDriver(d)]

Delete(d) ==
  [Clauses |-> <<[SqlClause(ClauseDelete) EXCEPT !.TableName = "t", !.ModelType = "T"]>>,
   Driver |-> OptsDriver(d)]

(***************************************************************************)
(* Inputs of the exploration.                                              *)
(***************************************************************************)
OptDrivers == {NilDriver, PostgresDriver}

WhereInputs ==
  { [expr |-> <<"a", "=", "?">>, args |-> <<101>>],
    [expr |-> <<"a", "=", "?", "AND", "b", "=", "?">>, args |-> <<101, 102>>],
    [expr |-> <<"m", "=", "?">>, args |-> <<>>] }

CoalesceInputs ==
  { <<StringValue("c1")>>, <<NilValue, IntValue(0)>> }

RawValues(m) == [i \in 1..m |-> 200 + i]

\* Values(instance): the one-element value list holding a struct of the model type.
StructValues == <<999>>

LimitInputs == {10}

OffsetInputs == {20}

SelectOne == Select(1, PostgresDriver)

\* The (nested statement, ON expression, ON arguments) triples given to Join.
JoinInputs ==
  { [sub |-> ZeroStatement, on |-> <<"u.id", "=", "t.id">>, args |-> <<>>],
    [sub |-> Where(ZeroStatement, <<"x", "=", "?">>, <<111>>),
     on |-> <<"u.id", "=", "?">>, args |-> <<301>>],
    [sub |-> Insert(1, PostgresDriver), on |-> <<"u.id", "=", "t.id">>, args |-> <<>>],
    [sub |-> Where(Select(1, NilDriver), <<"x", "=", "?">>, <<111>>),
     on |-> <<"u.id", "=", "t.id">>, args |-> <<>>],
    [sub |-> Where(Select(1, NilDriver), <<"x", "=", "?">>, <<111>>),
     on |-> <<"u.id", "=", "?">>, args |-> <<301>>],
    [sub |-> Where(SelectOne, <<"x", "=", "?", "AND", "y", "=", "?">>, <<111, 112>>),
     on |-> <<"u.id", "=", "?">>, args |-> <<301>>],
    [sub |-> Returning(Where(Delete(PostgresDriver), <<"x", "=", "?">>, <<111>>), <<"c1">>),
     on |-> <<"u.id", "=", "?">>, args |-> <<301>>],
    [sub |-> Join(SelectOne, Where(SelectOne, <<"z", "=", "?">>, <<121>>),
                  "v", <<"v.id", "=", "?">>, <<311>>),
     on |-> <<"u.id", "=", "?">>, args |-> <<301>>] }

(***************************************************************************)
(* State machine.  stmt is the statement value the program holds, out the  *)
(* result of the latest Write()/Args() on it and prev the result of the    *)
(* one before.                                                             *)
(***************************************************************************)
\* The database handle has not been called and Exec/Query have not run.
NoCall == [op |-> "none", models |-> 0, err |-> ErrNil, dbFails |-> FALSE]

\* No v2 builder has been created, and ToSQL has not run.
NoTable == [name |-> "", columns |-> <<>>]

NoRow == [c \in {} |-> 0]

NoBuilder ==
  [kind |-> "none", dialect |-> "", table |-> NoTable, values |-> <<>>, sets |-> NoRow,
   whereExprs |-> <<>>, returning |-> <<>>, err |-> ""]

NoSQL == [called |-> FALSE, sql |-> <<>>, args |-> <<>>, err |-> ""]

\* NewRegistry(): no converter registered.
NewRegistry == [converters |-> <<>>, defaults |-> <<>>]

NoConversion ==
  [op |-> "none", source |-> <<>>, target |-> [name |-> "", kind |-> ""], value |-> <<>>,
   err |-> <<>>, needs |-> FALSE]

\* The program variables that hold statement values, and the zero
\* SQLStatement: a nil clause slice.  A slice value is a view (arr, len, cap)
\* of a backing array; arr = 0 is the nil slice.
Names == {"s1", "s2", "s3a", "s3b"}

NilStatement == [arr |-> 0, len |-> 0, cap |-> 0, returned |-> <<>>]

\* No dialect instance yet; the goroutines that will call TypeRegistry()
\* and the position of one that has not called it.
NoDialect == [kind |-> "", registry |-> 0, err |-> ""]

Callers == {"g1", "g2", "g3"}

Idle == [pc |-> "idle", made |-> 0, got |-> 0]

\* No Connection or Session has been made, and none of its methods called.
NoConn == [kind |-> "none", tx |-> 0, begun |-> 0, closed |-> FALSE]

NoTxCall == [op |-> "none", err |-> "", via |-> "", before |-> NoConn]

Init ==
  /\ stmt = ZeroStatement
  /\ out = NoResult
  /\ prev = NoResult
  /\ calls = <<>>
  /\ res = NoCall
  /\ builder = NoBuilder
  /\ bsql = NoSQL
  /\ bprev = NoSQL
  /\ reg = NewRegistry
  /\ cres = NoConversion
  /\ heap = <<>>
  /\ held = [n \in Names |-> NilStatement]
  /\ dialect = NoDialect
  /\ registries = <<>>
  /\ callers = [g \in Callers |-> Idle]
  /\ conn = NoConn
  /\ txres = NoTxCall

CanAppend == Len(stmt.Clauses) < MaxClauses

Built(s) ==
  /\ stmt' = s
  /\ out' = NoResult
  /\ prev' = NoResult
  /\ calls' = <<>>
  /\ res' = NoCall
  /\ UNCHANGED <<builderVars, convVars, sliceVars, dialectVars, txVars>>

\* A constructor takes no statement as input and Built overwrites the whole
\* state, so its result is the same from every state: it is taken where the
\* program holds no clause yet, which reaches the same states.
NoClauseYet == Len(stmt.Clauses) = 0

DoSelect == NoClauseYet /\ \E n \in 1..MaxCols, d \in OptDrivers : Built(Select(n, d))

DoInsert == NoClauseYet /\ \E n \in 1..MaxCols, d \in OptDrivers : Built(Insert(n, d))

DoUpdate == NoClauseYet /\ \E n \in 1..MaxCols, d \in OptDrivers : Built(Update(n, d))

DoDelete == NoClauseYet /\ \E d \in OptDrivers : Built(Delete(d))

DoWhere == CanAppend /\ \E w \in WhereInputs : Built(Where(stmt, w.expr, w.args))

DoOrderBy == CanAppend /\ Built(OrderBy(stmt, <<"c1">>))

DoLimit == CanAppend /\ \E n \in LimitInputs : Built(Limit(stmt, n))

DoOffset == CanAppend /\ \E n \in OffsetInputs : Built(Offset(stmt, n))

DoCoalesce == CanAppend /\ \E v \in CoalesceInputs : Built(Coalesce(stmt, v))

DoDesc == CanAppend /\ Built(Desc(stmt))

DoAsc == CanAppend /\ Built(Asc(stmt))

DoReturning == CanAppend /\ Built(Returning(stmt, <<"c1">>))

DoValues ==
  /\ CanAppend
  /\ \/ \E m \in 0..MaxVals : Built(Values(stmt, RawValues(m), FALSE))
     \/ Built(Values(stmt, StructValues, TRUE))

DoJoin ==
  /\ CanAppend
  /\ \E j \in JoinInputs : Built(Join(stmt, j.sub, "u", j.on, j.args))

\* Variant: rendering consumes the clauses of the statement it is called on.
RenderConsuming ==
  /\ ~prev.rendered
  /\ LET w == Write(stmt)
     IN out' = [rendered |-> TRUE, sql |-> w.sql, err |-> w.err, args |-> Args(stmt)]
  /\ prev' = out
  /\ stmt' = [stmt EXCEPT !.Clauses = <<>>]
  /\ UNCHANGED <<execVars, builderVars, convVars, sliceVars, dialectVars, txVars>>

\* sql, err := stmt.Write(); args := stmt.Args().  The receiver is a value
\* and neither method assigns to its clauses.
Render ==
  /\ ~prev.rendered
  /\ LET w == Write(stmt)
     IN out' = [rendered |-> TRUE, sql |-> w.sql, err |-> w.err, args |-> Args(stmt)]
  /\ prev' = out
  /\ UNCHANGED <<stmt, execVars, builderVars, convVars, sliceVars, dialectVars, txVars>>

Next ==
  \/ DoSelect \/ DoInsert \/ DoUpdate \/ DoDelete
  \/ DoWhere \/ DoOrderBy \/ DoLimit \/ DoOffset \/ DoCoalesce
  \/ DoDesc \/ DoAsc \/ DoReturning \/ DoValues \/ DoJoin
  \/ Render

Spec == Init /\ [][Next]_vars

(***************************************************************************)
(* Exec and Query: the statement is checked, rendered and handed to the    *)
(* database handle.  calls is the log of the calls the handle received;    *)
(* dbFails says that the handle answers its first call with an error.      *)
(***************************************************************************)
ErrExecRequiresDML == [kind |-> "Exec requires an INSERT, UPDATE, or DELETE clause", clause |-> ""]
ErrExecReturning == [kind |-> "Exec cannot be used with RETURNING clause", clause |-> ""]
ErrExecNeedsModel == [kind |-> "Exec requires at least one model", clause |-> ""]
ErrModelType == [kind |-> "model type does not match clause type", clause |-> ""]
ErrQueryRequiresSelect == [kind |-> "Query requires a SELECT clause", clause |-> ""]
ErrDB == [kind |-> "database error", clause |-> ""]

DBCall(kind, sql, args) == [kind |-> kind, sql |-> sql, args |-> args]

\* The loop of ExecContext over the models, from model i on.
RECURSIVE execModels(_, _, _, _, _, _)
execModels(s, sqlStmt, models, dbFails, i, log) ==
  IF i > Len(models) THEN [calls |-> log, err |-> ErrNil]
  ELSE IF models[i] # s.Clauses[1].ModelType THEN [calls |-> log, err |-> ErrModelType]
  ELSE
    LET args == extractFieldValues(s.Clauses[1].ColumnNames) \o Args(s)
        after == Append(log, DBCall("exec", sqlStmt, args))
    IN IF dbFails /\ log = <<>> THEN [calls |-> after, err |-> ErrDB]
       ELSE execModels(s, sqlStmt, models, dbFails, i + 1, after)

ExecContext(s, models, dbFails) ==
  IF Len(s.Clauses) = 0 THEN [calls |-> <<>>, err |-> ErrExecRequiresDML]
  ELSE IF s.Clauses[1].Type \notin {ClauseInsert, ClauseUpdate, ClauseDelete}
  THEN [calls |-> <<>>, err |-> ErrExecRequiresDML]
  ELSE IF hasReturningClause(s) THEN [calls |-> <<>>, err |-> ErrExecReturning]
  ELSE IF Len(models) = 0 /\ s.Clauses[1].Type # ClauseDelete
  THEN [calls |-> <<>>, err |-> ErrExecNeedsModel]
  ELSE
    LET w == Write(s) IN
    IF w.err # ErrNil THEN [calls |-> <<>>, err |-> w.err]
    ELSE IF Len(models) = 0 /\ s.Clauses[1].Type = ClauseDelete
    THEN [calls |-> <<DBCall("exec", w.sql, Args(s))>>,
          err |-> IF dbFails THEN ErrDB ELSE ErrNil]
    ELSE execModels(s, w.sql, models, dbFails, 1, <<>>)

QueryContext(s, dbFails) ==
  IF Len(s.Clauses) = 0 \/ s.Clauses[1].Type # ClauseSelect
  THEN [calls |-> <<>>, err |-> ErrQueryRequiresSelect]
  ELSE
    LET w == Write(s) IN
    IF w.err # ErrNil THEN [calls |-> <<>>, err |-> w.err]
    ELSE [calls |-> <<DBCall("query", w.sql, Args(s))>>,
          err |-> IF dbFails THEN ErrDB ELSE ErrNil]

\* The models given to Exec: values of the statement's model type T or of another type.
ModelInputs == { <<>>, <<"T">>, <<"T", "T">>, <<"U">>, <<"T", "U">> }

\* res, err := Exec(db, stmt, models...)
DoExec ==
  /\ res.op = "none"
  /\ \E models \in ModelInputs, dbFails \in BOOLEAN :
       LET r == ExecContext(stmt, models, dbFails) IN
       /\ calls' = r.calls
       /\ res' = [op |-> "exec", models |-> Len(models), err |-> r.err, dbFails |-> dbFails]
  /\ UNCHANGED <<stmtVars, builderVars, convVars, sliceVars, dialectVars, txVars>>

\* iter, err := Query[T](db, stmt)
DoQuery ==
  /\ res.op = "none"
  /\ \E dbFails \in BOOLEAN :
       LET r == QueryContext(stmt, dbFails) IN
       /\ calls' = r.calls
       /\ res' = [op |-> "query", models |-> 0, err |-> r.err, dbFails |-> dbFails]
  /\ UNCHANGED <<stmtVars, builderVars, convVars, sliceVars, dialectVars, txVars>>

NextExec ==
  \/ DoSelect \/ DoInsert \/ DoUpdate \/ DoDelete
  \/ DoWhere \/ DoOrderBy \/ DoReturning \/ DoValues
  \/ DoExec \/ DoQuery

SpecExec == Init /\ [][NextExec]_vars

(***************************************************************************)
(* The v2 query builders (package builder): InsertBuilder, UpdateBuilder   *)
(* and DeleteBuilder.  A row of values and the SET map are functions from  *)
(* column names to values; an argument is <<v>> or, for nil, <<>>.         *)
(***************************************************************************)
MaxRows == 2
MaxWheres == 1

SQLiteDialect == "sqlite"
PostgresDialect == "postgres"
MySQLDialect == "mysql"

Dialects == {SQLiteDialect, PostgresDialect, MySQLDialect}

SupportsReturning(d) == d # MySQLDialect

ErrNoValues == "no values to insert"
ErrInvalidTable == "invalid table"
ErrNoInsertableColumns == "no insertable columns found"
ErrNoColumnsToUpdate == "no columns to update"
ErrUnsupportedReturning == "driver does not support RETURNING clause"
ErrValuesNil == "values cannot be nil"
ErrValuesEmpty == "values cannot be empty"

\* All column names, in the order of sort.Strings.
SortedColumns == <<"id", "name", "zzz">>

ColumnSet(cols) == { cols[k] : k \in DOMAIN cols }

Restrict(row, set) == [c \in (DOMAIN row) \cap set |-> row[c]]

\* mapFromMap: keys outside the table's columns are skipped when the table has columns.
mapFromMap(row, colSet) == IF colSet # {} THEN Restrict(row, colSet) ELSE row

extractRow(row, colSet) ==
  LET r == mapFromMap(row, colSet)
  IN IF DOMAIN r = {} THEN [row |-> NoRow, err |-> ErrNoInsertableColumns]
     ELSE [row |-> r, err |-> ""]

RECURSIVE extractRows(_, _, _)
extractRows(elems, colSet, i) ==
  IF i > Len(elems) THEN [rows |-> <<>>, err |-> ""]
  ELSE LET r == extractRow(elems[i], colSet) IN
       IF r.err # "" THEN [rows |-> <<>>, err |-> r.err]
       ELSE LET rest == extractRows(elems, colSet, i + 1) IN
            IF rest.err # "" THEN rest
            ELSE [rows |-> <<r.row>> \o rest.rows, err |-> ""]

\* data is nil, one map, or a slice of maps.
normalizeInsertValues(data, cols) ==
  CASE data.kind = "nil" -> [rows |-> <<>>, err |-> ErrValuesNil]
    [] data.kind = "slice" ->
         IF Len(data.elems) = 0 THEN [rows |-> <<>>, err |-> ErrValuesEmpty]
         ELSE extractRows(data.elems, ColumnSet(cols), 1)
    [] OTHER -> extractRows(data.elems, ColumnSet(cols), 1)

orderedInsertColumns(values, cols) ==
  IF DOMAIN values = {} THEN <<>>
  ELSE IF Len(cols) = 0 THEN SelectSeq(SortedColumns, LAMBDA c : c \in DOMAIN values)
  ELSE LET columns == SelectSeq(cols, LAMBDA c : c \in DOMAIN values) IN
       IF Len(columns) = 0 THEN SelectSeq(SortedColumns, LAMBDA c : c \in DOMAIN values)
       ELSE columns

NewInsert(d, tbl) == [NoBuilder EXCEPT !.kind = "insert", !.dialect = d, !.table = tbl]

NewUpdate(d, tbl) == [NoBuilder EXCEPT !.kind = "update", !.dialect = d, !.table = tbl]

NewDelete(d, tbl) == [NoBuilder EXCEPT !.kind = "delete", !.dialect = d, !.table = tbl]

InsertValues(bld, data) ==
  IF bld.err # "" THEN bld
  ELSE LET n == normalizeInsertValues(data, bld.table.columns) IN
       IF n.err # "" THEN [bld EXCEPT !.err = n.err]
       ELSE [bld EXCEPT !.values = @ \o n.rows]

Put(row, column, value) ==
  [c \in (DOMAIN row) \cup {column} |-> IF c = column THEN value ELSE row[c]]

InsertSet(bld, column, value) ==
  LET values == IF Len(bld.values) = 0 THEN <<NoRow>> ELSE bld.values
  IN [bld EXCEPT !.values = [values EXCEPT ![1] = Put(@, column, value)]]

UpdateSet(bld, column, value) == [bld EXCEPT !.sets = Put(@, column, value)]

BuilderWhere(bld, condition) == [bld EXCEPT !.whereExprs = Append(@, condition)]

BuilderReturning(bld, columns) == [bld EXCEPT !.returning = columns]

\* BinaryExpr.ToSQL: "<left> <operator> ?" with the right operand as argument.
BinaryExpr(left, operator, right) ==
  [sql |-> <<left, operator, "?">>, args |-> <<<<right>>>>]

Failure(e) == [called |-> TRUE, sql |-> <<>>, args |-> <<>>, err |-> e]

\* Variant: RETURNING is emitted whatever the dialect.
returningRejectedNever(bld) == FALSE

\* RETURNING asked on a dialect that does not support it.
returningRejected(bld) == ~SupportsReturning(bld.dialect)

\* The RETURNING part of ToSQL, common to the three builders.
withReturning(bld, sql, args) ==
  IF Len(bld.returning) > 0
  THEN IF returningRejected(bld) THEN Failure(ErrUnsupportedReturning)
       ELSE [called |-> TRUE, sql |-> sql \o <<"RETURNING">> \o CommaJoin(bld.returning),
             args |-> args, err |-> ""]
  ELSE [called |-> TRUE, sql |-> sql, args |-> args, err |-> ""]

RECURSIVE whereSQL(_, _)
whereSQL(exprs, i) ==
  IF i > Len(exprs) THEN <<>>
  ELSE (IF i > 1 THEN <<"AND">> ELSE <<>>) \o exprs[i].sql \o whereSQL(exprs, i + 1)

RECURSIVE whereArgs(_, _)
whereArgs(exprs, i) ==
  IF i > Len(exprs) THEN <<>> ELSE exprs[i].args \o whereArgs(exprs, i + 1)

wherePart(bld) ==
  IF Len(bld.whereExprs) > 0
  THEN [sql |-> <<"WHERE">> \o whereSQL(bld.whereExprs, 1), args |-> whereArgs(bld.whereExprs, 1)]
  ELSE [sql |-> <<>>, args |-> <<>>]

RECURSIVE rowsSQL(_, _, _)
rowsSQL(values, columns, i) ==
  IF i > Len(values) THEN <<>>
  ELSE (IF i > 1 THEN <<",">> ELSE <<>>)
         \o <<"(">> \o CommaJoin([j \in DOMAIN columns |-> "?"]) \o <<")">>
         \o rowsSQL(values, columns, i + 1)

RECURSIVE rowsArgs(_, _, _)
rowsArgs(values, columns, i) ==
  IF i > Len(values) THEN <<>>
  ELSE [j \in DOMAIN columns |->
          IF columns[j] \in DOMAIN values[i] THEN <<values[i][columns[j]]>> ELSE <<>>]
         \o rowsArgs(values, columns, i + 1)

InsertToSQL(bld) ==
  IF bld.err # "" THEN Failure(bld.err)
  ELSE IF Len(bld.values) = 0 THEN Failure(ErrNoValues)
  ELSE IF bld.table.name = "" THEN Failure(ErrInvalidTable)
  ELSE
    LET columns == orderedInsertColumns(bld.values[1], bld.table.columns) IN
    IF Len(columns) = 0 THEN Failure(ErrNoInsertableColumns)
    ELSE withReturning(bld,
           <<"INSERT", "INTO", bld.table.name, "(">> \o CommaJoin(columns)
              \o <<")", "VALUES">> \o rowsSQL(bld.values, columns, 1),
           rowsArgs(bld.values, columns, 1))

RECURSIVE setSQL(_, _)
setSQL(order, i) ==
  IF i > Len(order) THEN <<>>
  ELSE (IF i > 1 THEN <<",">> ELSE <<>>) \o <<order[i], "=", "?">> \o setSQL(order, i + 1)

\* Variant: the arguments follow the sorted column names while the SET list
\* follows the iteration order.
UpdateToSQLArgsSorted(bld, order) ==
  IF DOMAIN bld.sets = {} THEN Failure(ErrNoColumnsToUpdate)
  ELSE IF bld.table.name = "" THEN Failure(ErrInvalidTable)
  ELSE
    LET w == wherePart(bld)
        sorted == SelectSeq(SortedColumns, LAMBDA c : c \in DOMAIN bld.sets)
    IN withReturning(bld,
         <<"UPDATE", bld.table.name, "SET">> \o setSQL(order, 1) \o w.sql,
         [i \in DOMAIN sorted |-> <<bld.sets[sorted[i]]>>] \o w.args)

\* order is the order in which the range over the sets map yields its keys.
UpdateToSQL(bld, order) ==
  IF DOMAIN bld.sets = {} THEN Failure(ErrNoColumnsToUpdate)
  ELSE IF bld.table.name = "" THEN Failure(ErrInvalidTable)
  ELSE
    LET w == wherePart(bld) IN
    withReturning(bld,
      <<"UPDATE", bld.table.name, "SET">> \o setSQL(order, 1) \o w.sql,
      [i \in DOMAIN order |-> <<bld.sets[order[i]]>>] \o w.args)

DeleteToSQL(bld) ==
  IF bld.table.name = "" THEN Failure(ErrInvalidTable)
  ELSE LET w == wherePart(bld) IN
       withReturning(bld, <<"DELETE", "FROM", bld.table.name>> \o w.sql, w.args)

\* The orders in which a range over a map with these keys can yield them.
MapOrders(keys) ==
  { o \in [1..Cardinality(keys) -> keys] : \A i, j \in DOMAIN o : i # j => o[i] # o[j] }

(***************************************************************************)
(* Inputs and actions of the builders.                                     *)
(***************************************************************************)
TableInputs ==
  { [name |-> "users", columns |-> <<"name", "id">>], NoTable }

Row2(id, name) == [c \in {"id", "name"} |-> IF c = "id" THEN id ELSE name]

DataInputs ==
  { [kind |-> "nil", elems |-> <<>>],
    [kind |-> "map", elems |-> <<Row2(1, 2)>>],
    [kind |-> "map", elems |-> <<[c \in {"zzz"} |-> 9]>>],
    [kind |-> "slice", elems |-> <<>>],
    [kind |-> "slice", elems |-> <<[c \in {"id"} |-> 3], Row2(4, 5)>>] }

SetColumns == {"id", "zzz"}

SetValues == {7, 8}

WhereExprInputs == { BinaryExpr("id", "=", 1) }

ReturningInputs == { <<>>, <<"id">>, <<"id", "name">> }

Changed(bld) ==
  /\ builder' = bld
  /\ bsql' = NoSQL
  /\ bprev' = NoSQL
  /\ UNCHANGED <<stmtVars, execVars, convVars, sliceVars, dialectVars, txVars>>

DoNewInsert == \E d \in Dialects, t \in TableInputs : Changed(NewInsert(d, t))

DoNewUpdate == \E d \in Dialects, t \in TableInputs : Changed(NewUpdate(d, t))

DoNewDelete == \E d \in Dialects, t \in TableInputs : Changed(NewDelete(d, t))

DoInsertValues ==
  /\ builder.kind = "insert"
  /\ \E data \in DataInputs :
       /\ Len(builder.values) + Len(data.elems) <= MaxRows
       /\ Changed(InsertValues(builder, data))

DoSet ==
  \E c \in SetColumns, v \in SetValues :
    \/ builder.kind = "insert" /\ Changed(InsertSet(builder, c, v))
    \/ builder.kind = "update" /\ Changed(UpdateSet(builder, c, v))

DoBuilderWhere ==
  /\ builder.kind \in {"update", "delete"}
  /\ Len(builder.whereExprs) < MaxWheres
  /\ \E e \in WhereExprInputs : Changed(BuilderWhere(builder, e))

DoBuilderReturning ==
  /\ builder.kind # "none"
  /\ \E r \in ReturningInputs : Changed(BuilderReturning(builder, r))

\* sql, args, err := b.ToSQL(): the builder is left as it is.  bprev keeps
\* the result of the call before this one on the same builder.
DoToSQL ==
  /\ builder.kind # "none"
  /\ ~bprev.called
  /\ bprev' = bsql
  /\ \/ builder.kind = "insert" /\ bsql' = InsertToSQL(builder)
     \/ builder.kind = "update" /\ \E o \in MapOrders(DOMAIN builder.sets) :
                                     bsql' = UpdateToSQL(builder, o)
     \/ builder.kind = "delete" /\ bsql' = DeleteToSQL(builder)
  /\ UNCHANGED <<builder, stmtVars, execVars, convVars, sliceVars, dialectVars, txVars>>

NextBuilder ==
  \/ DoNewInsert \/ DoNewUpdate \/ DoNewDelete
  \/ DoInsertValues \/ DoSet \/ DoBuilderWhere \/ DoBuilderReturning
  \/ DoToSQL

SpecBuilder == Init /\ [][NextBuilder]_vars

(***************************************************************************)
(* The type-conversion registry (package typeconv).  A type is its name    *)
(* and its reflect.Kind; a value is its dynamic type, its validity (the    *)
(* Valid field of an sql.Null* value, non-nil for a pointer) and its data; *)
(* the nil interface is the empty option <<>>.                             *)
(***************************************************************************)
Type(name, kind) == [name |-> name, kind |-> kind]

StringType == Type("string", "string")
Int64Type == Type("int64", "int64")
BoolType == Type("bool", "bool")
TimeType == Type("time.Time", "struct")
NullTimeType == Type("sql.NullTime", "struct")
NullStringType == Type("sql.NullString", "struct")
TimePtrType == Type("*time.Time", "ptr")
AnyType == Type("interface {}", "interface")

SqlNullTypes ==
  { Type(n, "struct") :
      n \in {"sql.NullBool", "sql.NullByte", "sql.NullFloat64", "sql.NullInt16",
             "sql.NullInt32", "sql.NullInt64", "sql.NullString", "sql.NullTime"} }

\* Variant: only the sql.Null* types count as nullable.
isNullableTypeNoPointers(t) == t \in SqlNullTypes

isNullableType(t) == t \in SqlNullTypes \/ t.kind = "ptr"

\* reflect.Type.AssignableTo for the types above: identical types, or the
\* target is the empty interface.
AssignableTo(s, t) == s = t \/ t = AnyType

\* reflect.Zero(t).Interface()
Zero(t) == [type |-> t, valid |-> FALSE, data |-> <<>>]

Value(t, data) == [type |-> t, valid |-> TRUE, data |-> data]

TypePair(s, t) == <<s, t>>

ErrNonNullable(t) == <<"cannot convert nil to non-nullable type", t.name>>
ErrNoConverter(s, t) == <<"no converter registered", s.name, t.name>>
ErrConverter(name) == <<"converter failed", name>>
NoErr == <<>>

\* converter(source): a registered ConverterFunc either rejects the source
\* or returns a value of its result type made from the source.
Invoke(converter, source) ==
  IF converter.fails
  THEN [value |-> <<>>, err |-> ErrConverter(converter.name)]
  ELSE [value |-> <<Value(converter.result, <<converter.name>> \o source.data)>>, err |-> NoErr]

Register(r, sourceType, targetType, converter) ==
  LET p == TypePair(sourceType, targetType) IN
  [r EXCEPT !.converters =
     [q \in (DOMAIN @) \cup {p} |-> IF q = p THEN converter ELSE @[q]]]

RegisterDefault(r, targetType, converter) ==
  [r EXCEPT !.defaults =
     [t \in (DOMAIN @) \cup {targetType} |-> IF t = targetType THEN converter ELSE @[t]]]

\* Variant: without the pass-through of assignable values.
ConvertNoPassThrough(r, source, targetType) ==
  IF source = <<>>
  THEN IF isNullableType(targetType)
       THEN [value |-> <<Zero(targetType)>>, err |-> NoErr]
       ELSE [value |-> <<>>, err |-> ErrNonNullable(targetType)]
  ELSE
    LET sourceType == source[1].type IN
    IF TypePair(sourceType, targetType) \in DOMAIN r.converters
    THEN Invoke(r.converters[TypePair(sourceType, targetType)], source[1])
    ELSE IF targetType \in DOMAIN r.defaults
    THEN Invoke(r.defaults[targetType], source[1])
    ELSE [value |-> <<>>, err |-> ErrNoConverter(sourceType, targetType)]

\* Variant: the default converter of the target is tried before the exact one.
ConvertDefaultFirst(r, source, targetType) ==
  IF source = <<>>
  THEN IF isNullableType(targetType)
       THEN [value |-> <<Zero(targetType)>>, err |-> NoErr]
       ELSE [value |-> <<>>, err |-> ErrNonNullable(targetType)]
  ELSE
    LET sourceType == source[1].type IN
    IF targetType \in DOMAIN r.defaults
    THEN Invoke(r.defaults[targetType], source[1])
    ELSE IF TypePair(sourceType, targetType) \in DOMAIN r.converters
    THEN Invoke(r.converters[TypePair(sourceType, targetType)], source[1])
    ELSE IF AssignableTo(sourceType, targetType)
    THEN [value |-> source, err |-> NoErr]
    ELSE [value |-> <<>>, err |-> ErrNoConverter(sourceType, targetType)]

Convert(r, source, targetType) ==
  IF source = <<>>
  THEN IF isNullableType(targetType)
       THEN [value |-> <<Zero(targetType)>>, err |-> NoErr]
       ELSE [value |-> <<>>, err |-> ErrNonNullable(targetType)]
  ELSE
    LET sourceType == source[1].type IN
    IF TypePair(sourceType, targetType) \in DOMAIN r.converters
    THEN Invoke(r.converters[TypePair(sourceType, targetType)], source[1])
    ELSE IF targetType \in DOMAIN r.defaults
    THEN Invoke(r.defaults[targetType], source[1])
    ELSE IF AssignableTo(sourceType, targetType)
    THEN [value |-> source, err |-> NoErr]
    ELSE [value |-> <<>>, err |-> ErrNoConverter(sourceType, targetType)]

\* Variant: a registered converter is enough, assignable or not.
NeedsConversionWhenRegistered(r, sourceType, targetType) ==
  \/ TypePair(sourceType, targetType) \in DOMAIN r.converters
  \/ targetType \in DOMAIN r.defaults

NeedsConversion(r, sourceType, targetType) ==
  IF AssignableTo(sourceType, targetType) THEN FALSE
  ELSE LET hasSpecific == TypePair(sourceType, targetType) \in DOMAIN r.converters
           hasDefault == targetType \in DOMAIN r.defaults
       IN hasSpecific \/ hasDefault

(***************************************************************************)
(* Inputs and actions of the registry.                                     *)
(***************************************************************************)
SourceTypes == {StringType, Int64Type, TimeType}

TargetTypes == {TimeType, BoolType, NullTimeType, NullStringType, TimePtrType, AnyType, StringType}

RegisterInputs ==
  { TypePair(StringType, TimeType), TypePair(Int64Type, BoolType), TypePair(TimeType, TimeType) }

DefaultInputs == {TimeType, BoolType}

ExactConverters(t) ==
  { [name |-> "exact", fails |-> FALSE, result |-> t],
    [name |-> "exactRejecting", fails |-> TRUE, result |-> t] }

DefaultConverters(t) == { [name |-> "default", fails |-> FALSE, result |-> t] }

SourceValues == { <<>> } \cup { <<Value(t, <<"v">>)>> : t \in SourceTypes }

DoRegister ==
  /\ \E p \in RegisterInputs : \E c \in ExactConverters(p[2]) :
       reg' = Register(reg, p[1], p[2], c)
  /\ cres' = NoConversion
  /\ UNCHANGED <<stmtVars, execVars, builderVars, sliceVars, dialectVars, txVars>>

DoRegisterDefault ==
  /\ \E t \in DefaultInputs : \E c \in DefaultConverters(t) :
       reg' = RegisterDefault(reg, t, c)
  /\ cres' = NoConversion
  /\ UNCHANGED <<stmtVars, execVars, builderVars, sliceVars, dialectVars, txVars>>

\* value, err := registry.Convert(source, targetType)
DoConvert ==
  /\ \E source \in SourceValues, t \in TargetTypes :
       LET c == Convert(reg, source, t) IN
       cres' = [op |-> "convert", source |-> source, target |-> t,
                value |-> c.value, err |-> c.err, needs |-> FALSE]
  /\ UNCHANGED <<reg, stmtVars, execVars, builderVars, sliceVars, dialectVars, txVars>>

\* needs := registry.NeedsConversion(sourceType, targetType)
DoNeedsConversion ==
  /\ \E s \in SourceTypes, t \in TargetTypes :
       cres' = [op |-> "needs", source |-> <<Zero(s)>>, target |-> t,
                value |-> <<>>, err |-> NoErr, needs |-> NeedsConversion(reg, s, t)]
  /\ UNCHANGED <<reg, stmtVars, execVars, builderVars, sliceVars, dialectVars, txVars>>

NextConv == DoRegister \/ DoRegisterDefault \/ DoConvert \/ DoNeedsConversion

SpecConv == Init /\ [][NextConv]_vars

(***************************************************************************)
(* Statement values as Go holds them.  SQLStatement.Clauses is a slice:    *)
(* heap is the sequence of backing arrays allocated so far, held gives for *)
(* each program variable the slice it holds.  The field returned is the    *)
(* clause sequence the value had when the builder returned it (history).   *)
(***************************************************************************)
MaxArrays == 3

MaxSliceLen == 4

\* The unused slots of a backing array hold the zero SqlClause.
ZeroSlots(n) == [i \in 1..n |-> SqlClause("")]

\* s.Clauses as the program reads it.
SliceClauses(h, sl) == IF sl.arr = 0 THEN <<>> ELSE SubSeq(h[sl.arr], 1, sl.len)

\* The capacities append may give a grown slice: the language leaves the
\* choice to the implementation, which doubles a small slice.
GrowCaps(sl) == IF sl.cap = 0 THEN {1} ELSE {sl.len + 1, 2 * sl.cap}

\* append(s.Clauses, c) when len < cap: the clause is written into the
\* backing array of the receiver.
appendInPlace(h, sl, c) ==
  [heap |-> [h EXCEPT ![sl.arr][sl.len + 1] = c],
   slice |-> [arr |-> sl.arr, len |-> sl.len + 1, cap |-> sl.cap]]

\* append(s.Clauses, c) when len = cap: a new array of capacity newcap gets
\* a copy of the clauses and then the new clause.
appendGrown(h, sl, c, newcap) ==
  [heap |-> Append(h, SliceClauses(h, sl) \o <<c>> \o ZeroSlots(newcap - sl.len - 1)),
   slice |-> [arr |-> Len(h) + 1, len |-> sl.len + 1, cap |-> newcap]]

\* dst := Select[T](opts): SQLStatement{Clauses: []SqlClause{clause}}.
Construct(dst) ==
  /\ Len(heap) < MaxArrays
  /\ heap' = Append(heap, <<SqlClause(ClauseSelect)>>)
  /\ held' = [held EXCEPT ![dst] =
                [arr |-> Len(heap) + 1, len |-> 1, cap |-> 1,
                 returned |-> <<SqlClause(ClauseSelect)>>]]

\* dst := src.Method(...): s.Clauses = append(s.Clauses, c); return s.
Method(src, dst, c) ==
  LET sl == held[src]
      want == SliceClauses(heap, sl) \o <<c>>
  IN /\ sl.len < MaxSliceLen
     /\ \/ /\ sl.len < sl.cap
           /\ LET a == appendInPlace(heap, sl, c)
              IN /\ heap' = a.heap
                 /\ held' = [held EXCEPT ![dst] = a.slice @@ [returned |-> want]]
        \/ /\ sl.len = sl.cap
           /\ Len(heap) < MaxArrays
           /\ \E newcap \in GrowCaps(sl) :
                LET a == appendGrown(heap, sl, c, newcap)
                IN /\ heap' = a.heap
                   /\ held' = [held EXCEPT ![dst] = a.slice @@ [returned |-> want]]

DoConstruct ==
  /\ \E dst \in Names : Construct(dst)
  /\ UNCHANGED <<stmtVars, execVars, builderVars, convVars, dialectVars, txVars>>

DoMethodWhere ==
  /\ \E src \in Names, dst \in Names :
       Method(src, dst, [SqlClause(ClauseWhere) EXCEPT !.Expr = <<"a", "=", "?">>,
                                                       !.Args = <<101>>])
  /\ UNCHANGED <<stmtVars, execVars, builderVars, convVars, dialectVars, txVars>>

DoMethodLimit ==
  /\ \E src \in Names, dst \in Names :
       Method(src, dst, [SqlClause(ClauseLimit) EXCEPT !.Args = <<10>>])
  /\ UNCHANGED <<stmtVars, execVars, builderVars, convVars, dialectVars, txVars>>

DoMethodOffset ==
  /\ \E src \in Names, dst \in Names :
       Method(src, dst, [SqlClause(ClauseOffset) EXCEPT !.Args = <<20>>])
  /\ UNCHANGED <<stmtVars, execVars, builderVars, convVars, dialectVars, txVars>>

NextSlice == DoConstruct \/ DoMethodWhere \/ DoMethodLimit \/ DoMethodOffset

SpecSlice == Init /\ [][NextSlice]_vars

(***************************************************************************)
(* Dialects and their conversion registries.  dialect is the dialect       *)
(* instance in use: its kind and its registry field, a pointer into        *)
(* registries (0 is nil).  callers gives each goroutine's position inside  *)
(* TypeRegistry(): the registry it made (0 if none) and the one it got.    *)
(***************************************************************************)
BytesType == Type("[]uint8", "slice")

Converter(name, result) == [name |-> name, fails |-> FALSE, result |-> result]

\* The registry built by NewSQLiteDialect, NewPostgresDialect, NewMySQLDialect.
SQLiteRegistry ==
  LET r1 == Register(NewRegistry, StringType, TimeType, Converter("StringToTime", TimeType))
      r2 == Register(r1, StringType, NullTimeType, Converter("StringToNullTime", NullTimeType))
      r3 == Register(r2, Int64Type, TimeType, Converter("Int64ToTime", TimeType))
      r4 == Register(r3, Int64Type, NullTimeType, Converter("Int64ToNullTime", NullTimeType))
      r5 == Register(r4, Int64Type, BoolType, Converter("Int64ToBool", BoolType))
      r6 == RegisterDefault(r5, TimeType, Converter("DefaultTimeConverter", TimeType))
      r7 == RegisterDefault(r6, NullTimeType,
                            Converter("DefaultNullTimeConverter", NullTimeType))
  IN RegisterDefault(r7, BoolType, Converter("DefaultBoolConverter", BoolType))

PostgresRegistry ==
  LET r1 == RegisterDefault(NewRegistry, TimeType, Converter("DefaultTimeConverter", TimeType))
  IN RegisterDefault(r1, NullTimeType, Converter("DefaultNullTimeConverter", NullTimeType))

MySQLRegistry ==
  LET r1 == Register(NewRegistry, StringType, TimeType, Converter("StringToTime", TimeType))
      r2 == Register(r1, StringType, NullTimeType, Converter("StringToNullTime", NullTimeType))
      r3 == Register(r2, BytesType, TimeType, Converter("BytesToTime", TimeType))
      r4 == Register(r3, BytesType, NullTimeType, Converter("BytesToNullTime", NullTimeType))
      r5 == RegisterDefault(r4, TimeType, Converter("DefaultTimeConverter", TimeType))
  IN RegisterDefault(r5, NullTimeType, Converter("DefaultNullTimeConverter", NullTimeType))

Preconfigured(kind) ==
  CASE kind = SQLiteDialect -> SQLiteRegistry
    [] kind = PostgresDialect -> PostgresRegistry
    [] kind = MySQLDialect -> MySQLRegistry

\* NewSQLiteDialect() and its siblings: the registry field points to a new
\* registry holding the backend's converters.
NewDialect(kind) ==
  /\ dialect' = [kind |-> kind, registry |-> Len(registries) + 1, err |-> ""]
  /\ registries' = Append(registries, Preconfigured(kind))

\* dialectForScheme(scheme): a composite literal of the dialect struct, whose
\* registry field is nil.
dialectForScheme(scheme) ==
  CASE scheme = "sqlite" -> [kind |-> SQLiteDialect, registry |-> 0, err |-> ""]
    [] scheme \in {"postgres", "postgresql"} ->
         [kind |-> PostgresDialect, registry |-> 0, err |-> ""]
    [] scheme = "mysql" -> [kind |-> MySQLDialect, registry |-> 0, err |-> ""]
    [] OTHER -> [kind |-> "", registry |-> 0, err |-> "unsupported dialect"]

Schemes == {"sqlite", "postgres", "postgresql", "mysql", "oracle"}

DoNewDialect ==
  /\ dialect = NoDialect
  /\ \E kind \in Dialects : NewDialect(kind)
  /\ UNCHANGED <<callers, stmtVars, execVars, builderVars, convVars, sliceVars, txVars>>

DoDialectForScheme ==
  /\ dialect = NoDialect
  /\ \E scheme \in Schemes : dialect' = dialectForScheme(scheme)
  /\ UNCHANGED <<registries, callers, stmtVars, execVars, builderVars, convVars, sliceVars, txVars>>

\* TypeRegistry(), first step: if d.registry == nil.
TypeRegistryCheck(g) ==
  /\ dialect.kind # ""
  /\ callers[g].pc = "idle"
  /\ callers' = [callers EXCEPT ![g].pc = IF dialect.registry = 0 THEN "init" ELSE "return"]
  /\ UNCHANGED <<dialect, registries, txVars>>

\* d.registry = typeconv.NewRegistry()
TypeRegistryInit(g) ==
  /\ callers[g].pc = "init"
  /\ registries' = Append(registries, NewRegistry)
  /\ dialect' = [dialect EXCEPT !.registry = Len(registries) + 1]
  /\ callers' = [callers EXCEPT ![g].pc = "return", ![g].made = Len(registries) + 1]

\* return d.registry.  The field is read without synchronisation: a
\* goroutine that has just written it may get its own registry or the one
\* another goroutine has written since.
TypeRegistryReturn(g) ==
  /\ callers[g].pc = "return"
  /\ \E r \in {dialect.registry} \cup ({callers[g].made} \ {0}) :
       callers' = [callers EXCEPT ![g].pc = "done", ![g].got = r]
  /\ UNCHANGED <<dialect, registries, txVars>>

DoTypeRegistry ==
  /\ \E g \in Callers :
       TypeRegistryCheck(g) \/ TypeRegistryInit(g) \/ TypeRegistryReturn(g)
  /\ UNCHANGED <<stmtVars, execVars, builderVars, convVars, sliceVars, txVars>>

NextDialect == DoNewDialect \/ DoDialectForScheme \/ DoTypeRegistry

SpecDialect == Init /\ [][NextDialect]_vars

(***************************************************************************)
(* Transactions of a Connection and of a Session.  conn is the object:     *)
(* its tx field (0 is nil, n the n-th transaction the database began),     *)
(* the number of transactions begun and whether its database handle was    *)
(* closed.  txres is the latest call: its error and the object before it.  *)
(***************************************************************************)
MaxTx == 3

ErrAlreadyInTransaction(kind) == kind \o " is already in a transaction"
ErrNotInTransaction(kind) == kind \o " is not in a transaction"
ErrDriver == "driver: bad connection"

InTransaction(c) == c.tx # 0

\* fails: what the database answers to BeginTx, Commit, Rollback.
Begin(c, fails) ==
  IF c.tx # 0 THEN [conn |-> c, err |-> ErrAlreadyInTransaction(c.kind), via |-> ""]
  ELSE IF fails THEN [conn |-> c, err |-> ErrDriver, via |-> "db"]
  ELSE [conn |-> [c EXCEPT !.tx = c.begun + 1, !.begun = c.begun + 1], err |-> "", via |-> "db"]

\* Variant: a transaction whose Commit fails stays the current one.
CommitKeepingFailedTx(c, fails) ==
  IF c.tx = 0 THEN [conn |-> c, err |-> ErrNotInTransaction(c.kind), via |-> ""]
  ELSE IF fails THEN [conn |-> c, err |-> ErrDriver, via |-> "tx"]
  ELSE [conn |-> [c EXCEPT !.tx = 0], err |-> "", via |-> "tx"]

Commit(c, fails) ==
  IF c.tx = 0 THEN [conn |-> c, err |-> ErrNotInTransaction(c.kind), via |-> ""]
  ELSE [conn |-> [c EXCEPT !.tx = 0], err |-> IF fails THEN ErrDriver ELSE "", via |-> "tx"]

Rollback(c, fails) ==
  IF c.tx = 0 THEN [conn |-> c, err |-> ErrNotInTransaction(c.kind), via |-> ""]
  ELSE [conn |-> [c EXCEPT !.tx = 0], err |-> IF fails THEN ErrDriver ELSE "", via |-> "tx"]

\* ExecuteContext / Exec: the statement goes to the transaction when there
\* is one and to the database handle otherwise.
Execute(c, fails) ==
  [conn |-> c, err |-> IF fails THEN ErrDriver ELSE "",
   via |-> IF c.tx # 0 THEN "tx" ELSE "db"]

\* Connection.Close drops the error of the rollback and closes the database
\* handle; Session.Close returns the error of the rollback.
Close(c, fails, closeFails) ==
  IF c.kind = "connection"
  THEN LET r == IF c.tx # 0 THEN Rollback(c, fails).conn ELSE c
       IN [conn |-> [r EXCEPT !.closed = TRUE],
           err |-> IF closeFails THEN ErrDriver ELSE "", via |-> "db"]
  ELSE IF c.tx # 0 THEN Rollback(c, fails)
  ELSE [conn |-> c, err |-> "", via |-> ""]

\* engine.Connect(ctx) and NewSession(ctx, eng)
DoConnect ==
  /\ conn.kind = "none"
  /\ \E kind \in {"connection", "session"} : conn' = [NoConn EXCEPT !.kind = kind]
  /\ txres' = NoTxCall
  /\ UNCHANGED <<stmtVars, execVars, builderVars, convVars, sliceVars, dialectVars>>

Called(op, r) ==
  /\ conn' = r.conn
  /\ txres' = [op |-> op, err |-> r.err, via |-> r.via, before |-> conn]
  /\ UNCHANGED <<stmtVars, execVars, builderVars, convVars, sliceVars, dialectVars>>

\* A closed database handle refuses to begin a transaction.
DoBegin ==
  /\ conn.kind # "none"
  /\ conn.begun < MaxTx
  /\ \E fails \in (IF conn.closed THEN {TRUE} ELSE BOOLEAN) :
       Called("Begin", Begin(conn, fails))

DoCommit ==
  /\ conn.kind # "none"
  /\ \E fails \in BOOLEAN : Called("Commit", Commit(conn, fails))

DoRollback ==
  /\ conn.kind # "none"
  /\ \E fails \in BOOLEAN : Called("Rollback", Rollback(conn, fails))

DoClose ==
  /\ conn.kind # "none"
  /\ \E fails \in BOOLEAN, closeFails \in BOOLEAN :
       Called("Close", Close(conn, fails, closeFails))

DoExecute ==
  /\ conn.kind # "none"
  /\ \E fails \in (IF conn.closed /\ conn.kind = "connection" THEN {TRUE} ELSE BOOLEAN) :
       Called("Exec", Execute(conn, fails))

NextTx == DoConnect \/ DoBegin \/ DoCommit \/ DoRollback \/ DoClose \/ DoExecute

SpecTx == Init /\ [][NextTx]_vars

(***************************************************************************)
(* Vocabulary of the properties.                                           *)
(***************************************************************************)
MaxPosition == 4 * (MaxClauses + 1)

Dollar(n) == "$" \o ToString(n)

DollarTokens == { Dollar(n) : n \in (0 - MaxCols)..MaxPosition }

IsPlaceholder(tok) == tok = "?" \/ tok \in DollarTokens

PlaceholderTokens(sql) == SelectSeq(sql, IsPlaceholder)

CountPlaceholders(sql) == Len(PlaceholderTokens(sql))

Markers(expr) == Cardinality({ k \in DOMAIN expr : expr[k] = "?" })

Rendered == out.rendered /\ out.err = ErrNil

HasClause(s, type) == \E i \in DOMAIN s.Clauses : s.Clauses[i].Type = type

\* Every clause of s binds as many arguments as it has placeholders: the
\* arguments of WHERE and ON match their markers, and every INSERT or UPDATE
\* clause is immediately followed by a VALUES clause (for UPDATE: with one
\* value per SET column).
RECURSIVE Balanced(_)
Balanced(s) ==
  \A i \in DOMAIN s.Clauses :
    LET c == s.Clauses[i] IN
    /\ c.Type = ClauseWhere => Markers(c.Expr) = Len(c.Args)
    /\ c.Type = ClauseJoin =>
         Markers(c.Expr) = Len(c.Args) /\ Balanced(c.JoinStatement)
    /\ c.Type \in {ClauseInsert, ClauseUpdate} =>
         /\ i < Len(s.Clauses)
         /\ s.Clauses[i + 1].Type = ClauseValues
         /\ c.Type = ClauseUpdate => Len(s.Clauses[i + 1].Args) = Len(c.ColumnNames)

(***************************************************************************)
(* C1 as stated: every statement that renders without error has as many    *)
(* placeholder tokens in its SQL as Args() has values.                     *)
(***************************************************************************)
C1_ParityOfEveryStatement ==
  Rendered => CountPlaceholders(out.sql) = Len(out.args)

(***************************************************************************)
(* C1 amended: a statement that renders without error, in which every      *)
(* INSERT or UPDATE clause is immediately followed by a VALUES clause (for *)
(* UPDATE with one value per SET column) and every WHERE and JOIN-ON       *)
(* expression has as many bound arguments as markers, has as many          *)
(* placeholder tokens in its SQL as Args() has values.                     *)
(***************************************************************************)
C1_ParityOfBalancedStatement ==
  (Rendered /\ Balanced(stmt)) => CountPlaceholders(out.sql) = Len(out.args)

C1_Witness ==
  /\ Rendered
  /\ Balanced(stmt)
  /\ HasClause(stmt, ClauseInsert)
  /\ Len(stmt.Clauses) = 3
  /\ CountPlaceholders(out.sql) = 3
  /\ Len(stmt.Clauses[1].ColumnNames) # Len(stmt.Clauses[2].Args)

C3_DollarNumbering ==
  (Rendered /\ stmt.Driver = PostgresDriver) =>
     PlaceholderTokens(out.sql) = [k \in 1..CountPlaceholders(out.sql) |-> Dollar(k)]

\* The statement and all its nested statements use driver d.
RECURSIVE AllDrivers(_, _)
AllDrivers(s, d) ==
  /\ s.Driver = d
  /\ \A i \in DOMAIN s.Clauses :
       s.Clauses[i].Type = ClauseJoin => AllDrivers(s.Clauses[i].JoinStatement, d)

\* The numbering holds when the nested statements use the PostgresDriver too.
DollarNumberingUniform ==
  (Rendered /\ AllDrivers(stmt, PostgresDriver)) =>
     PlaceholderTokens(out.sql) = [k \in 1..CountPlaceholders(out.sql) |-> Dollar(k)]

(***************************************************************************)
(* C4: in a statement rendered by the PostgresDriver, the first            *)
(* placeholder of the ON expression of a JOIN clause is $(p+K), where p is *)
(* the running position at which the JOIN is rendered and K the number of  *)
(* placeholders its nested statement consumes.                             *)
(***************************************************************************)
\* Placeholders a statement consumes, after section 4.3 of the design.
RECURSIVE Consumed(_, _)
Consumed(s, upto) ==
  IF upto = 0 THEN 0
  ELSE
    LET c == s.Clauses[upto]
        own ==
          CASE c.Type = ClauseInsert ->
                 IF upto < Len(s.Clauses) /\ s.Clauses[upto + 1].Type = ClauseValues
                 THEN Len(s.Clauses[upto + 1].Args)
                 ELSE Len(c.ColumnNames)
            [] c.Type = ClauseUpdate -> Len(c.ColumnNames)
            [] c.Type = ClauseWhere -> Markers(c.Expr)
            [] c.Type \in {ClauseLimit, ClauseOffset} -> 1
            [] c.Type = ClauseJoin ->
                 Consumed(c.JoinStatement, Len(c.JoinStatement.Clauses)) + Markers(c.Expr)
            [] OTHER -> 0
    IN Consumed(s, upto - 1) + own

NestedConsumed(c) == Consumed(c.JoinStatement, Len(c.JoinStatement.Clauses))

\* The indexes of the top-level JOIN clauses, and of their ON keywords in the
\* SQL (the ON expression of a top-level JOIN starts with u.id).
JoinIndexes(s) == { i \in DOMAIN s.Clauses : s.Clauses[i].Type = ClauseJoin }

OnIndexes(sql) ==
  { t \in DOMAIN sql : sql[t] = "ON" /\ t + 3 <= Len(sql) /\ sql[t + 1] = "u.id" }

Rank(set, x) == Cardinality({ y \in set : y <= x })

C4_JoinOnOffset ==
  (Rendered /\ stmt.Driver = PostgresDriver) =>
     /\ Cardinality(OnIndexes(out.sql)) = Cardinality(JoinIndexes(stmt))
     /\ \A i \in JoinIndexes(stmt) : \A t \in OnIndexes(out.sql) :
          (Rank(JoinIndexes(stmt), i) = Rank(OnIndexes(out.sql), t)
             /\ Markers(stmt.Clauses[i].Expr) > 0)
          => out.sql[t + 3] =
               Dollar(1 + Consumed(stmt, i - 1) + NestedConsumed(stmt.Clauses[i]))

C4_Witness ==
  /\ Rendered
  /\ stmt.Driver = PostgresDriver
  /\ \E i \in JoinIndexes(stmt) :
       /\ Markers(stmt.Clauses[i].Expr) > 0
       /\ NestedConsumed(stmt.Clauses[i]) = 2
       /\ Consumed(stmt, i - 1) > 0

(***************************************************************************)
(* C5: Args() lists the bound values in the order in which rendering       *)
(* assigns the placeholders: clause by clause, and for a JOIN the nested   *)
(* statement's arguments before the JOIN's own ON arguments.  The inputs   *)
(* bind a known value to each marker that follows a column label, so the   *)
(* values of the labelled placeholders, read left to right in the SQL, are *)
(* the labelled values of Args() in order; and in a balanced statement     *)
(* rendered by the PostgresDriver the placeholder $n of a label is bound   *)
(* to Args()[n].                                                           *)
(***************************************************************************)
Labels == {"a", "b", "x", "y", "z", "u.id", "v.id"}

LabelValue(label) ==
  CASE label = "a" -> 101
    [] label = "b" -> 102
    [] label = "x" -> 111
    [] label = "y" -> 112
    [] label = "z" -> 121
    [] label = "u.id" -> 301
    [] label = "v.id" -> 311

LabelValues == { LabelValue(l) : l \in Labels }

\* The indexes of the placeholders of out.sql that follow "<label> =".
LabelledAt(sql) ==
  { t \in DOMAIN sql : t > 2 /\ IsPlaceholder(sql[t]) /\ sql[t - 1] = "=" /\ sql[t - 2] \in Labels }

RECURSIVE LabelSeq(_, _)
LabelSeq(sql, t) ==
  IF t > Len(sql) THEN <<>>
  ELSE (IF t \in LabelledAt(sql) THEN <<LabelValue(sql[t - 2])>> ELSE <<>>)
         \o LabelSeq(sql, t + 1)

IsLabelValue(v) == v \in LabelValues

PositionOf(tok) == CHOOSE n \in 1..MaxPosition : Dollar(n) = tok

C5_ArgsInPlaceholderOrder ==
  Rendered =>
    /\ LabelSeq(out.sql, 1) = SelectSeq(out.args, IsLabelValue)
    /\ (stmt.Driver = PostgresDriver /\ Balanced(stmt)) =>
         \A t \in LabelledAt(out.sql) :
           out.sql[t] \in DollarTokens =>
             /\ PositionOf(out.sql[t]) <= Len(out.args)
             /\ out.args[PositionOf(out.sql[t])] = LabelValue(out.sql[t - 2])

C5_Witness ==
  /\ Rendered
  /\ stmt.Driver = PostgresDriver
  /\ Balanced(stmt)
  /\ \E i \in JoinIndexes(stmt) :
       /\ Len(stmt.Clauses[i].Args) > 0
       /\ NestedConsumed(stmt.Clauses[i]) > 0
       /\ i < Len(stmt.Clauses)
       /\ stmt.Clauses[i + 1].Type = ClauseWhere
  /\ Len(out.args) >= 3

(***************************************************************************)
(* C6: an INSERT clause with N columns immediately followed by a VALUES    *)
(* clause holding M values renders a VALUES tuple of exactly M             *)
(* placeholders, and the M values are what the two clauses contribute to   *)
(* Args().                                                                 *)
(***************************************************************************)
InsertWithValues(s) ==
  /\ Len(s.Clauses) >= 2
  /\ s.Clauses[1].Type = ClauseInsert
  /\ s.Clauses[2].Type = ClauseValues

\* The tokens between "VALUES (" and the next ")".
RECURSIVE TupleFrom(_, _)
TupleFrom(sql, t) ==
  IF t > Len(sql) \/ sql[t] = ")" THEN <<>>
  ELSE <<sql[t]>> \o TupleFrom(sql, t + 1)

ValuesTuple(sql) == TupleFrom(sql, Index(sql, "VALUES") + 2)

RECURSIVE LaterArgs(_, _)
LaterArgs(s, i) ==
  IF i > Len(s.Clauses) THEN <<>> ELSE s.Clauses[i].Args \o LaterArgs(s, i + 1)

C6_ValuesOverrideArity ==
  (Rendered /\ InsertWithValues(stmt)) =>
     LET M == Len(stmt.Clauses[2].Args) IN
     /\ Index(out.sql, "VALUES") > 0
     /\ CountPlaceholders(ValuesTuple(out.sql)) = M
     /\ Len(ValuesTuple(out.sql)) = (IF M = 0 THEN 0 ELSE 2 * M - 1)
     /\ SubSeq(out.args, 1, M) = stmt.Clauses[2].Args
     /\ out.args = stmt.Clauses[2].Args \o LaterArgs(stmt, 3)

C6_Witness ==
  /\ Rendered
  /\ InsertWithValues(stmt)
  /\ Len(stmt.Clauses[1].ColumnNames) = 2
  /\ Len(stmt.Clauses[2].Args) = 1
  /\ Len(stmt.Clauses) = 3
  /\ stmt.Clauses[3].Type = ClauseWhere

(***************************************************************************)
(* Violations of the clause rules, clause by clause.                       *)
(***************************************************************************)
DML == {ClauseInsert, ClauseUpdate, ClauseDelete}

PrevType(s, i) == IF i = 1 THEN "" ELSE s.Clauses[i - 1].Type

JoinMisplaced(s, i) ==
  LET nested == s.Clauses[i].JoinStatement IN
  \/ s.Clauses[1].Type # ClauseSelect
  \/ PrevType(s, i) \in {ClauseWhere, ClauseOrderBy, ClauseLimit, ClauseOffset, ClauseReturning}
  \/ Len(nested.Clauses) = 0
  \/ nested.Clauses[1].Type \notin DML \cup {ClauseSelect}
  \/ (nested.Clauses[1].Type \in DML /\ ~HasClause(nested, ClauseReturning))

\* The errors clause i of s raises on its own account; for a well-placed
\* JOIN those of the leftmost violating clause of its nested statement.
RECURSIVE ClauseErrors(_, _)
RECURSIVE LeftmostErrors(_)
ClauseErrors(s, i) ==
  LET c == s.Clauses[i] IN
  CASE c.Type \in {ClauseDesc, ClauseAsc} ->
         IF PrevType(s, i) # ClauseOrderBy THEN {NewErrMisplacedClause(c.Type)} ELSE {}
    [] c.Type = ClauseReturning ->
         IF s.Clauses[1].Type \notin DML THEN {NewErrMisplacedClause(c.Type)} ELSE {}
    [] c.Type = ClauseValues ->
         IF PrevType(s, i) \notin {ClauseInsert, ClauseUpdate}
         THEN {NewErrMisplacedClause(c.Type)} ELSE {}
    [] c.Type = ClauseCoalesce ->
         (IF PrevType(s, i) # ClauseSelect THEN {NewErrMisplacedClause(c.Type)} ELSE {})
           \cup (IF Len(c.ColumnNames) < 2 THEN {NewErrInvalidCoalesceArgs} ELSE {})
    [] c.Type = ClauseJoin ->
         IF JoinMisplaced(s, i) THEN {NewErrMisplacedClause(c.Type)}
         ELSE LeftmostErrors(c.JoinStatement)
    [] OTHER -> {}

Violating(s) == { i \in DOMAIN s.Clauses : ClauseErrors(s, i) # {} }

Leftmost(s) == CHOOSE i \in Violating(s) : \A j \in Violating(s) : i <= j

LeftmostErrors(s) == IF Violating(s) = {} THEN {} ELSE ClauseErrors(s, Leftmost(s))

(***************************************************************************)
(* C7: Write() fails exactly when some clause is in violation; it then     *)
(* returns an error of the leftmost violating clause and the empty string, *)
(* never partial SQL.                                                      *)
(***************************************************************************)
C7_HaltsAtFirstViolation ==
  out.rendered =>
    /\ Violating(stmt) = {} => out.err = ErrNil
    /\ Violating(stmt) # {} => (out.err \in LeftmostErrors(stmt) /\ out.sql = <<>>)

C7_Witness ==
  /\ out.rendered
  /\ Cardinality(Violating(stmt)) >= 2
  /\ Leftmost(stmt) > 1
  /\ \E j \in Violating(stmt) : ClauseErrors(stmt, j) \cap LeftmostErrors(stmt) = {}
  /\ out.err \in LeftmostErrors(stmt)

(***************************************************************************)
(* C8: a DESC or ASC clause that does not immediately follow an ORDER BY   *)
(* clause, also as the first clause, makes Write() fail; the error is      *)
(* MisplacedClause carrying the name of that clause unless an earlier      *)
(* clause already stopped the rendering (C7).                              *)
(***************************************************************************)
MisplacedDescAsc(s) ==
  { i \in DOMAIN s.Clauses :
      s.Clauses[i].Type \in {ClauseDesc, ClauseAsc} /\ PrevType(s, i) # ClauseOrderBy }

C8_DescAscNeedOrderBy ==
  out.rendered =>
    \A i \in MisplacedDescAsc(stmt) :
      /\ out.err # ErrNil
      /\ out.sql = <<>>
      /\ (\A j \in 1..(i - 1) : j \notin Violating(stmt)) =>
           out.err = NewErrMisplacedClause(stmt.Clauses[i].Type)

C8_Witness ==
  /\ out.rendered
  /\ stmt.Clauses # <<>>
  /\ stmt.Clauses[1].Type = ClauseSelect
  /\ \E i \in MisplacedDescAsc(stmt) : i = 3
  /\ out.err \in {NewErrMisplacedClause(ClauseDesc), NewErrMisplacedClause(ClauseAsc)}

(***************************************************************************)
(* C9: a RETURNING clause, wherever it stands, is accepted exactly when    *)
(* the leading clause is INSERT, UPDATE or DELETE: with such a leading     *)
(* clause Write() never fails with MisplacedClause RETURNING, and with any *)
(* other leading clause it fails, with MisplacedClause RETURNING unless an *)
(* earlier clause already stopped the rendering (C7).                      *)
(***************************************************************************)
ReturningAt(s) == { i \in DOMAIN s.Clauses : s.Clauses[i].Type = ClauseReturning }

C9_ReturningNeedsLeadingDML ==
  (out.rendered /\ ReturningAt(stmt) # {}) =>
    /\ stmt.Clauses[1].Type \in DML => out.err # NewErrMisplacedClause(ClauseReturning)
    /\ stmt.Clauses[1].Type \notin DML =>
         /\ out.err # ErrNil
         /\ \A i \in ReturningAt(stmt) :
              (\A j \in 1..(i - 1) : j \notin Violating(stmt)) =>
                 out.err = NewErrMisplacedClause(ClauseReturning)

C9_Witness ==
  /\ Rendered
  /\ \E i \in ReturningAt(stmt) : i = 3
  /\ stmt.Clauses[2].Type = ClauseWhere
  /\ stmt.Clauses[1].Type = ClauseDelete

(***************************************************************************)
(* C10 as stated: a COALESCE clause whose immediate predecessor is not a   *)
(* SELECT clause fails with MisplacedClause COALESCE whatever its number   *)
(* of arguments (the clauses before it being in order).                    *)
(***************************************************************************)
MisplacedCoalesce(s) ==
  { i \in DOMAIN s.Clauses :
      s.Clauses[i].Type = ClauseCoalesce /\ PrevType(s, i) # ClauseSelect }

C10_CoalesceOrderCheckedFirst ==
  out.rendered =>
    \A i \in MisplacedCoalesce(stmt) :
      (\A j \in 1..(i - 1) : j \notin Violating(stmt)) =>
         out.err = NewErrMisplacedClause(ClauseCoalesce)

(***************************************************************************)
(* C11: a COALESCE clause that immediately follows the SELECT clause and   *)
(* has fewer than two arguments makes Write() fail with                    *)
(* InvalidCoalesceArgs and return no SQL.                                  *)
(***************************************************************************)
ShortCoalesceAfterSelect(s) ==
  { i \in DOMAIN s.Clauses :
      /\ s.Clauses[i].Type = ClauseCoalesce
      /\ PrevType(s, i) = ClauseSelect
      /\ Len(s.Clauses[i].ColumnNames) < 2 }

C11_CoalesceNeedsTwoArgs ==
  (out.rendered /\ ShortCoalesceAfterSelect(stmt) # {}) =>
     (out.err = NewErrInvalidCoalesceArgs /\ out.sql = <<>>)

C11_Witness ==
  /\ out.rendered
  /\ ShortCoalesceAfterSelect(stmt) = {2}
  /\ Len(stmt.Clauses[2].ColumnNames) = 1
  /\ Len(stmt.Clauses) = 3
  /\ out.err = NewErrInvalidCoalesceArgs

\* With two arguments the COALESCE after SELECT is rendered into the column list.
CoalesceWithTwoArgsRenders ==
  (out.rendered /\ Len(stmt.Clauses) = 2 /\ stmt.Clauses[1].Type = ClauseSelect
     /\ stmt.Clauses[2].Type = ClauseCoalesce /\ Len(stmt.Clauses[2].ColumnNames) = 2)
  => (out.err = ErrNil /\ Index(out.sql, "COALESCE") > 0
        /\ Index(out.sql, "COALESCE") < Index(out.sql, "FROM"))

(***************************************************************************)
(* C12 as stated: a JOIN clause whose immediate predecessor is neither the *)
(* SELECT clause nor another JOIN clause makes Write() fail with           *)
(* MisplacedClause JOIN (the clauses before it being in order).            *)
(***************************************************************************)
JoinAfterOther(s) ==
  { i \in JoinIndexes(s) : PrevType(s, i) \notin {ClauseSelect, ClauseJoin} }

C12_JoinPredecessor ==
  out.rendered =>
    \A i \in JoinAfterOther(stmt) :
      (\A j \in 1..(i - 1) : j \notin Violating(stmt)) =>
         out.err = NewErrMisplacedClause(ClauseJoin)

\* What the code enforces: the leading clause and the five listed predecessors.
JoinPredecessorListed ==
  out.rendered =>
    \A i \in JoinIndexes(stmt) :
      ((\A j \in 1..(i - 1) : j \notin Violating(stmt))
         /\ (stmt.Clauses[1].Type # ClauseSelect
              \/ PrevType(stmt, i) \in
                   {ClauseWhere, ClauseOrderBy, ClauseLimit, ClauseOffset, ClauseReturning}))
      => out.err = NewErrMisplacedClause(ClauseJoin)

(***************************************************************************)
(* C13 as stated: a non-empty statement that Write() renders without error *)
(* has a leading clause of kind INSERT, SELECT, UPDATE or DELETE.          *)
(***************************************************************************)
C13_LeadingClauseKind ==
  (Rendered /\ stmt.Clauses # <<>>) =>
     stmt.Clauses[1].Type \in {ClauseInsert, ClauseSelect, ClauseUpdate, ClauseDelete}

(***************************************************************************)
(* C14: the SQL of a non-empty statement rendered without error ends with  *)
(* exactly one ";" when the driver is the SQLiteDriver (also when the      *)
(* statement has no driver), and holds no ";" at all when the driver is    *)
(* the PostgresDriver.                                                     *)
(***************************************************************************)
Semicolons(sql) == { t \in DOMAIN sql : sql[t] = ";" }

C14_TrailingSemicolon ==
  (Rendered /\ stmt.Clauses # <<>>) =>
     /\ out.sql # <<>>
     /\ stmt.Driver \in {SQLiteDriver, NilDriver} => Semicolons(out.sql) = {Len(out.sql)}
     /\ stmt.Driver = PostgresDriver => Semicolons(out.sql) = {}

C14_Witness ==
  /\ Rendered
  /\ stmt.Driver = PostgresDriver
  /\ \E i \in JoinIndexes(stmt) : stmt.Clauses[i].JoinStatement.Driver = SQLiteDriver
  /\ Len(stmt.Clauses) = 3
  /\ Semicolons(out.sql) = {}

(***************************************************************************)
(* C15: ToSQL of a builder that carries a RETURNING clause, on a dialect   *)
(* that does not support RETURNING (MySQL), always fails and returns no    *)
(* SQL and no arguments; the error is the unsupported-RETURNING error      *)
(* whenever the statement is otherwise complete (it has a table name and,  *)
(* for INSERT, values, for UPDATE, a SET column), the checks of which come *)
(* first.                                                                  *)
(***************************************************************************)
Complete(bld) ==
  /\ bld.table.name # ""
  /\ bld.kind = "insert" => (bld.err = "" /\ Len(bld.values) > 0)
  /\ bld.kind = "update" => DOMAIN bld.sets # {}

C15_UnsupportedReturningFails ==
  (bsql.called /\ Len(builder.returning) > 0 /\ builder.dialect = MySQLDialect) =>
     /\ bsql.err # ""
     /\ bsql.sql = <<>>
     /\ bsql.args = <<>>
     /\ Complete(builder) => bsql.err = ErrUnsupportedReturning

C15_Witness ==
  /\ bsql.called
  /\ builder.kind = "insert"
  /\ builder.dialect = MySQLDialect
  /\ builder.returning = <<"id">>
  /\ Len(builder.values) = 2
  /\ bsql.err = ErrUnsupportedReturning

\* On the dialects that support it the RETURNING text ends the statement.
ReturningEmittedWhenSupported ==
  (bsql.called /\ Len(builder.returning) > 0 /\ builder.dialect # MySQLDialect
     /\ Complete(builder)) =>
     /\ bsql.err = ""
     /\ Index(bsql.sql, "RETURNING") = Len(bsql.sql) - (2 * Len(builder.returning) - 1)

(***************************************************************************)
(* C16: Convert(nil, T) succeeds exactly when T is an sql.Null* type or a  *)
(* pointer type; it then returns the zero value of T, whose validity is    *)
(* false, and no error.  For every other T it returns no value and the     *)
(* non-nullable-target error.                                              *)
(***************************************************************************)
NullableShapes == {NullTimeType, NullStringType, TimePtrType}

C16_ConvertNil ==
  (cres.op = "convert" /\ cres.source = <<>>) =>
     /\ cres.target \in NullableShapes =>
          /\ cres.err = NoErr
          /\ cres.value = <<Zero(cres.target)>>
          /\ ~cres.value[1].valid
     /\ cres.target \notin NullableShapes =>
          /\ cres.err = ErrNonNullable(cres.target)
          /\ cres.value = <<>>

C16_Witness ==
  /\ cres.op = "convert"
  /\ cres.source = <<>>
  /\ cres.target = TimePtrType
  /\ cres.err = NoErr
  /\ TimeType \in DOMAIN reg.defaults

\* A registered default converter of the target is not consulted for nil.
C16_WitnessNonNullable ==
  /\ cres.op = "convert"
  /\ cres.source = <<>>
  /\ cres.target = TimeType
  /\ TimeType \in DOMAIN reg.defaults
  /\ cres.err = ErrNonNullable(TimeType)

(***************************************************************************)
(* C17: for a non-nil value Convert applies the first applicable rule, in  *)
(* this order: the exact converter of (type of the value, target), the     *)
(* default converter of the target, the value itself when its type is      *)
(* assignable to the target; it fails with the no-converter-registered     *)
(* error exactly when none of the three applies.                           *)
(***************************************************************************)
HasExact(s, t) == TypePair(s, t) \in DOMAIN reg.converters

HasDefault(t) == t \in DOMAIN reg.defaults

C17_ConvertRuleOrder ==
  (cres.op = "convert" /\ cres.source # <<>>) =>
     LET v == cres.source[1]
         s == v.type
         t == cres.target
         result == [value |-> cres.value, err |-> cres.err]
     IN
     /\ HasExact(s, t) => result = Invoke(reg.converters[TypePair(s, t)], v)
     /\ (~HasExact(s, t) /\ HasDefault(t)) => result = Invoke(reg.defaults[t], v)
     /\ (~HasExact(s, t) /\ ~HasDefault(t) /\ AssignableTo(s, t)) =>
          result = [value |-> <<v>>, err |-> NoErr]
     /\ (cres.err = ErrNoConverter(s, t))
          <=> (~HasExact(s, t) /\ ~HasDefault(t) /\ ~AssignableTo(s, t))

C17_Witness ==
  /\ cres.op = "convert"
  /\ cres.source = <<Value(TimeType, <<"v">>)>>
  /\ cres.target = TimeType
  /\ HasExact(TimeType, TimeType)
  /\ HasDefault(TimeType)
  /\ cres.value = <<Value(TimeType, <<"exact", "v">>)>>

(***************************************************************************)
(* C18: NeedsConversion(sourceType, targetType) is true exactly when       *)
(* sourceType is not assignable to targetType and an exact converter of    *)
(* the pair or a default converter of targetType is registered.            *)
(***************************************************************************)
C18_NeedsConversion ==
  cres.op = "needs" =>
     LET s == cres.source[1].type
         t == cres.target
     IN cres.needs <=> (~(s = t \/ t = AnyType) /\ (HasExact(s, t) \/ HasDefault(t)))

C18_Witness ==
  /\ cres.op = "needs"
  /\ cres.source[1].type = TimeType
  /\ cres.target = TimeType
  /\ HasExact(TimeType, TimeType)
  /\ HasDefault(TimeType)
  /\ ~cres.needs

(***************************************************************************)
(* C19 as stated: Exec called without models on an INSERT or UPDATE        *)
(* statement whose second clause is VALUES (a statement without RETURNING  *)
(* that renders without error, on a database handle that answers without   *)
(* error) hands the rendered SQL to the database exactly once, with the    *)
(* statement's Args() as arguments, and returns no error.                  *)
(***************************************************************************)
ExecutableWithValues(s) ==
  /\ Len(s.Clauses) >= 2
  /\ s.Clauses[1].Type \in {ClauseInsert, ClauseUpdate}
  /\ s.Clauses[2].Type = ClauseValues
  /\ ~HasClause(s, ClauseReturning)
  /\ Write(s).err = ErrNil

C19_ExecWithValuesNoModels ==
  (res.op = "exec" /\ res.models = 0 /\ ~res.dbFails /\ ExecutableWithValues(stmt)) =>
     /\ res.err = ErrNil
     /\ calls = <<DBCall("exec", Write(stmt).sql, Args(stmt))>>

\* What the code does: without models only a DELETE statement is executed.
ExecWithoutModelsOnlyDelete ==
  (res.op = "exec" /\ res.models = 0) =>
     /\ (stmt.Clauses = <<>> \/ stmt.Clauses[1].Type # ClauseDelete) =>
          (res.err # ErrNil /\ calls = <<>>)
     /\ (res.err = ErrNil) =>
          calls = <<DBCall("exec", Write(stmt).sql, Args(stmt))>>

(***************************************************************************)
(* C20 as stated: Query accepts a statement exactly when its leading       *)
(* clause is SELECT or it is an INSERT, UPDATE or DELETE statement with a  *)
(* RETURNING clause; any other statement is answered with an error and     *)
(* no query reaches the database.                                          *)
(***************************************************************************)
Queryable(s) ==
  /\ s.Clauses # <<>>
  /\ \/ s.Clauses[1].Type = ClauseSelect
     \/ (s.Clauses[1].Type \in DML /\ HasClause(s, ClauseReturning))

C20_QueryAcceptance ==
  res.op = "query" =>
     /\ Queryable(stmt) <=> res.err # ErrQueryRequiresSelect
     /\ ~Queryable(stmt) => (res.err # ErrNil /\ calls = <<>>)

\* What the code does: only a statement that starts with SELECT is accepted.
QueryOnlySelect ==
  res.op = "query" =>
     /\ (stmt.Clauses # <<>> /\ stmt.Clauses[1].Type = ClauseSelect)
          <=> res.err # ErrQueryRequiresSelect
     /\ res.err = ErrQueryRequiresSelect => calls = <<>>
     /\ res.err = ErrNil => calls = <<DBCall("query", Write(stmt).sql, Args(stmt))>>

(***************************************************************************)
(* C21 as stated: Write() fails for every statement in which an OFFSET     *)
(* clause is followed by another clause.                                   *)
(***************************************************************************)
OffsetFollowed(s) ==
  \E i \in 1..(Len(s.Clauses) - 1) : s.Clauses[i].Type = ClauseOffset

C21_OffsetAtEnd ==
  (out.rendered /\ OffsetFollowed(stmt)) => out.err # ErrNil

\* What the code enforces after an OFFSET: only a JOIN, DESC or ASC that
\* directly follows it is rejected.
OffsetFollowedByJoinFails ==
  out.rendered =>
    \A i \in 1..(Len(stmt.Clauses) - 1) :
      (stmt.Clauses[i].Type = ClauseOffset
         /\ stmt.Clauses[i + 1].Type \in {ClauseJoin, ClauseDesc, ClauseAsc})
      => out.err # ErrNil

(***************************************************************************)
(* C22 as stated: appending a clause with a builder method never changes   *)
(* the clause sequence of the receiver or of any statement derived earlier *)
(* from the same prefix: every statement value the program holds still has *)
(* the clauses it had when its builder returned it.                        *)
(***************************************************************************)
C22_AppendKeepsOtherStatements ==
  \A n \in Names : SliceClauses(heap, held[n]) = held[n].returned

\* What the code guarantees: a statement value keeps its length and its
\* leading clause; a later clause is overwritten when another value derived
\* from the same prefix is extended within the capacity of the shared array.
AppendKeepsLeadingClause ==
  \A n \in Names :
     /\ Len(SliceClauses(heap, held[n])) = Len(held[n].returned)
     /\ held[n].len > 0 => SliceClauses(heap, held[n])[1] = held[n].returned[1]

(***************************************************************************)
(* C23 as stated: under any interleaving of concurrent calls of            *)
(* TypeRegistry() on one dialect instance, the registry is initialised at  *)
(* most once and every caller receives the same Registry instance.         *)
(***************************************************************************)
Initialisers == { g \in Callers : callers[g].made # 0 }

Returned == { g \in Callers : callers[g].pc = "done" }

C23_TypeRegistryOnce ==
  /\ Cardinality(Initialisers) <= 1
  /\ \A g1 \in Returned, g2 \in Returned : callers[g1].got = callers[g2].got

\* What the code guarantees: callers of a dialect made by its constructor
\* all get the constructor's registry and none initialises another one;
\* callers one after the other get the same registry in any case.
TypeRegistryOnceWhenConstructed ==
  (dialect.kind # "" /\ registries # <<>> /\ registries[1] = Preconfigured(dialect.kind)) =>
     /\ Initialisers = {}
     /\ \A g \in Returned : callers[g].got = 1

(***************************************************************************)
(* C24 as stated: the registry that TypeRegistry() returns for a dialect   *)
(* instance in use, the one selected from the connection-URL scheme        *)
(* included, is the registry preconfigured with the backend's converters   *)
(* and never an empty registry.                                            *)
(***************************************************************************)
C24_RegistryPreconfigured ==
  \A g \in Returned :
     /\ registries[callers[g].got] = Preconfigured(dialect.kind)
     /\ registries[callers[g].got] # NewRegistry

\* What the code does: the dialect selected from the URL scheme has a nil
\* registry field, and every registry it hands out is an empty one.
SchemeDialectRegistryEmpty ==
  (dialect.kind # "" /\ (registries = <<>> \/ registries[1] = NewRegistry)) =>
     \A g \in Returned : registries[callers[g].got] = NewRegistry

(***************************************************************************)
(* C25 as stated: two ToSQL calls on an UpdateBuilder that holds the same  *)
(* two or more Set columns return the same SQL text and the same argument  *)
(* order.                                                                  *)
(***************************************************************************)
TwoToSQLCalls ==
  /\ builder.kind = "update"
  /\ bsql.called
  /\ bprev.called

C25_SetOrderStable ==
  (TwoToSQLCalls /\ Cardinality(DOMAIN builder.sets) >= 2) =>
     /\ bsql.sql = bprev.sql
     /\ bsql.args = bprev.args

\* What the code guarantees: the two results agree when the builder holds at
\* most one Set column, and they always agree on the error.
SetOrderStableForOneColumn ==
  TwoToSQLCalls =>
     /\ bsql.err = bprev.err
     /\ Len(bsql.sql) = Len(bprev.sql)
     /\ Cardinality(DOMAIN builder.sets) <= 1 => bsql = bprev

(***************************************************************************)
(* C26: in the result of one UpdateBuilder.ToSQL call that succeeds, the   *)
(* i-th `col = ?` assignment of the SET list is paired with the i-th       *)
(* argument, that argument is the value given to Set for that column, each *)
(* Set column is assigned once, and the WHERE arguments follow all the SET *)
(* arguments; this holds for every iteration order of the map.             *)
(***************************************************************************)
SetCount(bld) == Cardinality(DOMAIN bld.sets)

\* The column of the i-th assignment in "UPDATE t SET c = ? , c = ? ...".
SetColumnAt(sql, i) == sql[4 * i]

C26_SetArgsPaired ==
  (builder.kind = "update" /\ bsql.called /\ bsql.err = "") =>
     LET n == SetCount(builder) IN
     /\ Len(bsql.args) = n + Len(whereArgs(builder.whereExprs, 1))
     /\ { SetColumnAt(bsql.sql, i) : i \in 1..n } = DOMAIN builder.sets
     /\ \A i \in 1..n :
          /\ SubSeq(bsql.sql, 4 * i, 4 * i + 2) = <<SetColumnAt(bsql.sql, i), "=", "?">>
          /\ bsql.args[i] = <<builder.sets[SetColumnAt(bsql.sql, i)]>>
     /\ SubSeq(bsql.args, n + 1, Len(bsql.args)) = whereArgs(builder.whereExprs, 1)

\* Two Set columns with different values, listed in the order zzz, id, and a
\* WHERE condition.
C26_Witness ==
  /\ builder.kind = "update"
  /\ bsql.called
  /\ bsql.err = ""
  /\ DOMAIN builder.sets = {"id", "zzz"}
  /\ builder.sets["id"] # builder.sets["zzz"]
  /\ SetColumnAt(bsql.sql, 1) = "zzz"
  /\ Len(builder.whereExprs) = 1
  /\ Len(bsql.args) = 3

(***************************************************************************)
(* C27 as stated: whenever NeedsConversion(S, T) is false because S is     *)
(* assignable to T, Convert of a non-nil value of type S with target T     *)
(* returns that value unchanged and invokes no registered converter.       *)
(***************************************************************************)
ConvertedAssignable ==
  /\ cres.op = "convert"
  /\ cres.source # <<>>
  /\ AssignableTo(cres.source[1].type, cres.target)
  /\ ~NeedsConversion(reg, cres.source[1].type, cres.target)

PassedThrough == cres.value = cres.source /\ cres.err = NoErr

C27_NeedsConversionAgreesWithConvert == ConvertedAssignable => PassedThrough

(***************************************************************************)
(* C27 amended: whenever NeedsConversion(S, T) is false because S is       *)
(* assignable to T, and neither an exact converter for (S, T) nor a        *)
(* default converter for T is registered, Convert of a non-nil value of    *)
(* type S with target T returns that value unchanged; when one is          *)
(* registered, Convert returns what that converter returns.                *)
(***************************************************************************)
C27_PassThroughWhenNoneRegistered ==
  ConvertedAssignable =>
     LET s == cres.source[1].type
         t == cres.target
     IN /\ (~HasExact(s, t) /\ ~HasDefault(t)) => PassedThrough
        /\ HasExact(s, t) =>
             cres.value = Invoke(reg.converters[TypePair(s, t)], cres.source[1]).value
        /\ (~HasExact(s, t) /\ HasDefault(t)) =>
             cres.value = Invoke(reg.defaults[t], cres.source[1]).value

\* A time.Time value converted to time.Time by a registry that holds other
\* converters but none for this pair or target.
C27_Witness ==
  /\ ConvertedAssignable
  /\ cres.source[1].type = TimeType
  /\ cres.target = TimeType
  /\ ~HasExact(TimeType, TimeType)
  /\ ~HasDefault(TimeType)
  /\ HasExact(StringType, TimeType)
  /\ HasDefault(BoolType)
  /\ PassedThrough

(***************************************************************************)
(* C28 as stated: all placeholders of a rendered statement use the syntax  *)
(* of the outer statement's driver, also inside nested JOIN statements     *)
(* built with the default options: $N under the PostgresDriver, never "?". *)
(***************************************************************************)
C28_PlaceholdersOfOuterDriver ==
  Rendered =>
     \A k \in DOMAIN out.sql :
        IsPlaceholder(out.sql[k]) =>
           (out.sql[k] = "?") <=> (stmt.Driver # PostgresDriver)

\* What the code does: Join hands the outer driver only to a nested
\* statement that has none, and a statement built by Select[T](nil) already
\* has the DefaultDriver; the placeholders are uniform when the nested
\* statements carry the driver of the outer one.
JoinInheritsOnlyNilDriver ==
  /\ \A i \in DOMAIN stmt.Clauses :
       (stmt.Clauses[i].Type = ClauseJoin /\ stmt.Driver # NilDriver) =>
          stmt.Clauses[i].JoinStatement.Driver # NilDriver
  /\ (Rendered /\ AllDrivers(stmt, PostgresDriver)) =>
        \A k \in DOMAIN out.sql : out.sql[k] # "?"

(***************************************************************************)
(* C29 as stated: in every rendered INSERT, also after a VALUES splice,    *)
(* the parenthesised column list has as many column names as the VALUES    *)
(* tuple has placeholders.                                                 *)
(***************************************************************************)
RenderedInsert ==
  /\ Rendered
  /\ stmt.Clauses # <<>>
  /\ stmt.Clauses[1].Type = ClauseInsert

\* The names between "INSERT INTO t (" and ") VALUES".
InsertColumnList(sql) ==
  SelectSeq(SubSeq(sql, 5, Index(sql, "VALUES") - 2), LAMBDA tok : tok # ",")

C29_InsertColumnsMatchPlaceholders ==
  RenderedInsert =>
     Len(InsertColumnList(out.sql)) = CountPlaceholders(ValuesTuple(out.sql))

\* What the code guarantees: the column list is always the one of the INSERT
\* clause, and the counts agree unless a VALUES clause with another number
\* of values follows the INSERT.
InsertColumnsMatchWithoutSplice ==
  RenderedInsert =>
     /\ InsertColumnList(out.sql) = stmt.Clauses[1].ColumnNames
     /\ (~InsertWithValues(stmt)
           \/ Len(stmt.Clauses[2].Args) = Len(stmt.Clauses[1].ColumnNames))
        => Len(InsertColumnList(out.sql)) = CountPlaceholders(ValuesTuple(out.sql))

(***************************************************************************)
(* C30: for a Connection or a Session, under any sequence of Begin,        *)
(* Commit, Rollback and Close calls, InTransaction() is true exactly from  *)
(* a successful Begin until the next Commit, Rollback or Close, whether or *)
(* not that call reports an error.  Begin while it is true returns         *)
(* ErrAlreadyInTransaction, Commit and Rollback while it is false return   *)
(* ErrNotInTransaction, and each of these leaves the object unchanged.     *)
(***************************************************************************)
C30_InTransaction ==
  LET was == InTransaction(txres.before)
      is == InTransaction(conn)
  IN
  /\ txres.op = "none" => ~is
  /\ txres.op = "Begin" =>
       /\ was => (txres.err = ErrAlreadyInTransaction(conn.kind) /\ conn = txres.before)
       /\ ~was => (is <=> txres.err = "")
       /\ (~was /\ is) => conn.tx \notin {0, txres.before.tx}
  /\ txres.op \in {"Commit", "Rollback"} =>
       /\ ~is
       /\ ~was => (txres.err = ErrNotInTransaction(conn.kind) /\ conn = txres.before)
       /\ was => txres.err \in {"", ErrDriver}
  /\ txres.op = "Close" => ~is
  /\ txres.op = "Exec" =>
       (conn = txres.before /\ (txres.via = "tx" <=> is))

\* A Commit that the database answers with an error ends the transaction.
C30_Witness ==
  /\ txres.op = "Commit"
  /\ InTransaction(txres.before)
  /\ txres.err = ErrDriver
  /\ ~InTransaction(conn)
  /\ conn.begun = 2

====
